---------------------------- MODULE Spec2Model ----------------------------
(***************************************************************************)
(* Model of the VelocityDRIVE-SP host stack:                               *)
(*   - the MUP1 framer   (src/js/velocitydrive-protocol.js, MUP1Protocol)  *)
(*   - the CoAP engine   (src/js/coap-advanced.js, AdvancedCoAPClient)     *)
(*   - the controller    (src/js/lan966x-controller.js, LAN966xController) *)
(* The specifications share the module: SpecMUP1 and SpecLine drive the    *)
(* framer, Spec and SpecRegistry the CoAP engine, SpecController the       *)
(* controller's response dispatch.                                         *)
(***************************************************************************)
EXTENDS Integers, Sequences, FiniteSets, TLC

VARIABLES
    \* ---- MUP1 framer ----
    fType,          \* createFrame argument: type
    fData,          \* createFrame argument: data
    emitted,        \* the frame createFrame returned (<<>> before the call)
    stream,         \* bytes on the serial line, as the reader will see them
    fed,            \* number of bytes of stream already given to parseData
    state,          \* this.state
    mup1Data,       \* this.mup1Data
    mup1Type,       \* this.mup1Type
    checksum,       \* this.checksum
    frames,         \* every frame parseData has returned so far, in order
    \* ---- CoAP engine ----
    messageIdCounter,   \* this.messageIdCounter
    activeRequests,     \* this.activeRequests: messageId -> entry
    exchanges,          \* one record per submitted exchange (the promise and its journal)
    budget,             \* peer responses that may still reach their exchange
    \* ---- controller ----
    responseCallbacks,  \* this.responseCallbacks: frame type -> waiting call
    waits,              \* one record per waitForResponse call (its promise and timer)
    received,           \* every frame handleIncomingData has looked at, in order
    raised,             \* handleIncomingData has thrown
    \* ---- controller: connection ----
    isConnected,        \* this.isConnected
    connectPc,          \* where connect() stands
    connectError,       \* what connect() threw ("none" while it has not)
    ioError,            \* the first failure of the transport ("none" while it works)
    closed,             \* disconnect() has completed
    requests,           \* one record per getYangChecksum/fetchData/patchData/postData call
    \* ---- serial handler and application ----
    webSerial,          \* the WebSerialHandler the application uses
    appConnected,       \* VelocityDriveApp.isConnected
    \* ---- CoapClient and the option list of AdvancedCoAPClient.createRequest ----
    clientMessageId,    \* CoapClient: this.messageId
    clientArgs,         \* createMessage arguments: type, code, token, options, payload
    clientMessage,      \* what the last createMessage call built (<<>> before the first)
    clientBuilt,        \* number of createMessage calls made
    requestArgs,        \* createRequest arguments: path and options
    requestBuilt,       \* what the last createRequest call built (<<>> before the first)
    \* ---- CBOR codec ----
    cborValue,          \* the value given to encode
    cborBytes,          \* encode(cborValue)
    cborDecoded,        \* decode(cborBytes)
    cborAgain,          \* encode(cborDecoded)
    cborPc,             \* how far the round trip has come
    \* ---- SID tables: the codec's KNOWN_SIDS and YANGModelBrowser.sidMappings ----
    sidPc,              \* what has been done with the key or SID given
    sidKey,             \* the property name or path given (<<>> when a SID was given)
    sidNumber,          \* the SID given (0 when a name was given)
    sidBytes,           \* the encoded object with that one key
    sidDecoded,         \* decode(sidBytes)
    sidFound,           \* what getSIDForPath / getPathForSID returned
    sidBack,            \* what the opposite lookup returned for sidFound
    \* ---- controller: identifyDevice ----
    deviceInfo,         \* this.deviceInfo
    identifyPc,         \* where identifyDevice() stands
    identified,         \* one record per completed identifyDevice() call
    \* ---- MUP1Protocol of the YANG browser (yang-browser.js) ----
    rxType,             \* encodeFrame argument: msgType
    rxData,             \* encodeFrame argument: data
    rxBytes,            \* the frame encodeFrame returned (<<>> before the call)
    rxFed,              \* number of bytes of rxBytes already given to processByte
    rxProtocol,         \* state, frameBuffer, dataBuffer, expectedLength, escapeNext
    rxFrames            \* every frame processByte has returned so far, in order

mupVars  == <<fType, fData, emitted, stream, fed, state, mup1Data, mup1Type, checksum, frames>>
coapVars == <<messageIdCounter, activeRequests, exchanges, budget>>
ctlVars  == <<responseCallbacks, waits, received, raised>>
connVars == <<isConnected, connectPc, connectError, ioError, closed, requests>>
appVars  == <<webSerial, appConnected>>
clientVars == <<clientMessageId, clientArgs, clientMessage, clientBuilt, requestArgs, requestBuilt>>
cborVars == <<cborValue, cborBytes, cborDecoded, cborAgain, cborPc>>
sidVars  == <<sidPc, sidKey, sidNumber, sidBytes, sidDecoded, sidFound, sidBack>>
idVars   == <<deviceInfo, identifyPc, identified>>
rxVars   == <<rxType, rxData, rxBytes, rxFed, rxProtocol, rxFrames>>
lateVars == <<sidVars, idVars, rxVars>>
pureVars == <<clientVars, cborVars, lateVars>>
restVars == <<connVars, appVars, pureVars>>
vars     == <<mupVars, coapVars, ctlVars, restVars>>

\* null / undefined where the code expects bytes, and a hole of a sparse array
Null == <<-1>>
Hole == <<-2>>

\* The frame types as the characters String.fromCharCode gives for them
CallbackTypes == {"A", "C", "P", "T", "S"}

\* this.responseCallbacks before its first assignment
Undefined == [type \in CallbackTypes |-> -1]

----------------------------------------------------------------------------
(* Bounds of the model *)

MaxPayload   == 3   \* longest createFrame payload explored
MaxExchanges == 1   \* exchanges submitted to the CoAP engine
MaxResponses == 3   \* peer responses delivered to the CoAP engine
MaxBlocks    == 3   \* a request payload spans at most this many blocks
MaxNum       == 2   \* largest block number a peer response carries

----------------------------------------------------------------------------
(* MUP1 framer: constants (constructor) *)

MUP1_SOF == 62
MUP1_EOF == 60
MUP1_ESC == 92
MUP1_00  == 48
MUP1_FF  == 70
MUP1_CB_ANNOUNCE == 65
MUP1_CB_COAP     == 67
MUP1_CB_PING     == 80
MUP1_CB_TRACE    == 84
MUP1_CB_SYSREQ   == 83
MaxFrameData     == 1024

FrameTypes == {MUP1_CB_ANNOUNCE, MUP1_CB_COAP, MUP1_CB_PING, MUP1_CB_TRACE, MUP1_CB_SYSREQ}

RECURSIVE SeqsUpTo(_, _)
SeqsUpTo(S, n) ==
    IF n = 0 THEN {<<>>}
    ELSE LET shorter == SeqsUpTo(S, n - 1)
         IN  shorter \cup {Append(s, b) : s \in {t \in shorter : Len(t) = n - 1}, b \in S}

----------------------------------------------------------------------------
(* MUP1 framer: emission *)

encodeByteBareFF(byte) ==
    IF byte \in {MUP1_SOF, MUP1_EOF, MUP1_ESC} THEN <<MUP1_ESC, byte>>
    ELSE IF byte = 0 THEN <<MUP1_ESC, MUP1_00>>
    ELSE <<byte>>

\* encodeData's switch, for one byte.
encodeByte(byte) ==
    IF byte \in {MUP1_SOF, MUP1_EOF, MUP1_ESC} THEN <<MUP1_ESC, byte>>
    ELSE IF byte = 0 THEN <<MUP1_ESC, MUP1_00>>
    ELSE IF byte = 255 THEN <<MUP1_ESC, MUP1_FF>>
    ELSE <<byte>>

RECURSIVE encodeData(_)
encodeData(data) ==
    IF data = <<>> THEN <<>>
    ELSE encodeByte(Head(data)) \o encodeData(Tail(data))

\* One hexadecimal digit as its upper-case ASCII code.
HexChar(n) == IF n < 10 THEN 48 + n ELSE 55 + n

RECURSIVE SumBytes16(_)
\* the loop of calculateChecksum: sum = (sum + byte) & 0xFFFF, left to right
SumBytes16(data) ==
    IF data = <<>> THEN 0
    ELSE (SumBytes16(SubSeq(data, 1, Len(data) - 1)) + data[Len(data)]) % 65536

calculateChecksum(data) ==
    LET sum  == SumBytes16(data)
        high == (sum \div 256) % 256
        low  == sum % 256
        \* byte.toString(16).toUpperCase().padStart(2, '0') as two character codes
        encodeNibble(byte) == <<HexChar(byte \div 16), HexChar(byte % 16)>>
    IN  encodeNibble(high) \o encodeNibble(low)

createFrame(type, data) ==
    LET encodedData == encodeData(data)
        body  == <<MUP1_SOF, type>> \o encodedData \o <<MUP1_EOF>>
        \* the test that decides whether a second EOF is pushed
        frame == IF (Len(encodedData) % 2) = 0 THEN Append(body, MUP1_EOF) ELSE body
    IN  frame \o calculateChecksum(frame)

----------------------------------------------------------------------------
(* MUP1 framer: parser *)

Parser(st, d, t, ck) == [state |-> st, mup1Data |-> d, mup1Type |-> t, checksum |-> ck]

\* parseStateMachine(c) on parser p: the parser afterwards and what the call
\* returned (<<>> for null, <<frame>> for a frame).
parseStateMachine(p, c) ==
    CASE p.state = "init" ->
            IF c = MUP1_SOF
            THEN [p |-> Parser("sof", <<>>, 0, <<>>), out |-> <<>>]
            ELSE [p |-> p, out |-> <<>>]
      [] p.state = "sof" ->
            [p |-> [p EXCEPT !.mup1Type = c, !.state = "data"], out |-> <<>>]
      [] p.state = "data" ->
            IF Len(p.mup1Data) > MaxFrameData
            THEN [p |-> [p EXCEPT !.state = "init"], out |-> <<>>]
            ELSE IF c = MUP1_ESC
            THEN [p |-> [p EXCEPT !.state = "esc"], out |-> <<>>]
            ELSE IF c = MUP1_EOF
            THEN [p |-> [p EXCEPT !.state =
                            IF Len(p.mup1Data) % 2 # 0 THEN "chk0" ELSE "eof2"],
                  out |-> <<>>]
            ELSE IF c \in {MUP1_SOF, 0, 255}
            THEN [p |-> [p EXCEPT !.state = "init"], out |-> <<>>]
            ELSE [p |-> [p EXCEPT !.mup1Data = Append(@, c)], out |-> <<>>]
      [] p.state = "esc" ->
            IF c \in {MUP1_SOF, MUP1_ESC, MUP1_EOF}
            THEN [p |-> [p EXCEPT !.state = "data", !.mup1Data = Append(@, c)], out |-> <<>>]
            ELSE IF c = MUP1_00
            THEN [p |-> [p EXCEPT !.state = "data", !.mup1Data = Append(@, 0)], out |-> <<>>]
            ELSE IF c = MUP1_FF
            THEN [p |-> [p EXCEPT !.state = "data", !.mup1Data = Append(@, 255)], out |-> <<>>]
            ELSE [p |-> [p EXCEPT !.state = "init"], out |-> <<>>]
      [] p.state = "eof2" ->
            IF c = MUP1_EOF
            THEN [p |-> [p EXCEPT !.state = "chk0"], out |-> <<>>]
            ELSE [p |-> [p EXCEPT !.state = "init"], out |-> <<>>]
      [] p.state \in {"chk0", "chk1", "chk2", "chk3"} ->
            LET ck == Append(p.checksum, c)
            IN  IF Len(ck) = 4
                \* the fourth checksum character: the frame is complete and returned
                THEN [p   |-> Parser("init", p.mup1Data, p.mup1Type, ck),
                      out |-> <<[type |-> p.mup1Type, data |-> p.mup1Data,
                                 checksum |-> ck]>>]
                ELSE [p |-> [p EXCEPT !.checksum = ck,
                                      !.state = IF Len(ck) = 1 THEN "chk1"
                                                ELSE IF Len(ck) = 2 THEN "chk2"
                                                ELSE "chk3"],
                      out |-> <<>>]

RECURSIVE parseData(_, _)
\* parseData(data) on parser p: the parser afterwards and the frames returned.
parseData(p, bytes) ==
    IF bytes = <<>> THEN [p |-> p, frames |-> <<>>]
    ELSE LET r    == parseStateMachine(p, Head(bytes))
             rest == parseData(r.p, Tail(bytes))
         IN  [p |-> rest.p,
              frames |-> r.out \o rest.frames]

----------------------------------------------------------------------------
(* MUP1 framer: the state machine *)

InitMUP1Vars ==
    /\ emitted = <<>>
    /\ stream = <<>>
    /\ fed = 0
    /\ state = "init"
    /\ mup1Data = <<>>
    /\ mup1Type = 0
    /\ checksum = <<>>
    /\ frames = <<>>

\* The host builds a frame and the line carries it unchanged.
CreateFrame ==
    /\ emitted = <<>>
    /\ emitted' = createFrame(fType, fData)
    /\ stream' = emitted'
    /\ UNCHANGED <<fType, fData, fed, state, mup1Data, mup1Type, checksum, frames, coapVars, ctlVars, restVars>>

\* Line noise: one of the four checksum characters arrives as another
\* hexadecimal character.
CorruptChecksum ==
    /\ emitted # <<>>
    /\ stream = emitted
    /\ fed = 0
    /\ \E i \in (Len(stream) - 3)..Len(stream) :
          stream' = [stream EXCEPT ![i] = IF @ = 48 THEN 70 ELSE 48]
    /\ UNCHANGED <<fType, fData, emitted, fed, state, mup1Data, mup1Type, checksum, frames, coapVars, ctlVars, restVars>>

\* The reader hands the next slice of the line (of any length) to parseData.
ParseData ==
    /\ stream # <<>>
    /\ fed < Len(stream)
    /\ \E n \in 1..(Len(stream) - fed) :
          LET r == parseData(Parser(state, mup1Data, mup1Type, checksum),
                             SubSeq(stream, fed + 1, fed + n))
          IN  /\ fed' = fed + n
              /\ state' = r.p.state
              /\ mup1Data' = r.p.mup1Data
              /\ mup1Type' = r.p.mup1Type
              /\ checksum' = r.p.checksum
              /\ frames' = frames \o r.frames
    /\ UNCHANGED <<fType, fData, emitted, stream, coapVars, ctlVars, restVars>>

----------------------------------------------------------------------------
(* CoAP engine: constants (constructor) *)

TYPE_CONFIRMABLE    == 0
TYPE_ACKNOWLEDGMENT == 2
TYPE_RESET          == 3
DEFAULT_BLOCK_SIZE  == 256
RETRANSMIT_TIME_SEC == 3
MAX_RETRANSMIT      == 5
MessageIdModulus    == 65536

\* messageIdCounter = Math.floor(Math.random() * 0xFFFF): any of 0..65534;
\* the model starts from a low value and from one about to wrap.
InitialCounters == {7, MessageIdModulus - 3}

\* The payload of the k-th response the peer sends, when it carries one:
\* k bytes of value 170 + k, so that no two responses carry the same chunk.
Chunk(k) == [i \in 1..k |-> 170 + k]

----------------------------------------------------------------------------
(* CoAP engine: helpers *)

getNextMessageId(counter) == (counter + 1) % MessageIdModulus

encodeBlockOption(num, more, blockSize) ==
    LET Szx ==
            CASE blockSize = 16   -> 0
              [] blockSize = 32   -> 1
              [] blockSize = 64   -> 2
              [] blockSize = 128  -> 3
              [] blockSize = 256  -> 4
              [] blockSize = 512  -> 5
              [] blockSize = 1024 -> 6
              [] OTHER            -> 4
        value == num * 16 + (IF more THEN 8 ELSE 0) + Szx
    IN  IF value = 0 THEN <<>>
        ELSE IF value < 256 THEN <<value>>
        ELSE IF value < 65536 THEN <<(value \div 256) % 256, value % 256>>
        ELSE <<(value \div 65536) % 256, (value \div 256) % 256, value % 256>>

RECURSIVE BytesToInt(_)
\* value = (value << 8) | byte, over the bytes from left to right
BytesToInt(bytes) ==
    IF bytes = <<>> THEN 0
    ELSE BytesToInt(SubSeq(bytes, 1, Len(bytes) - 1)) * 256 + bytes[Len(bytes)]

decodeBlockOption(bytes) ==
    LET value == BytesToInt(bytes)
    IN  [num |-> value \div 16,
         more |-> ((value \div 8) % 2) = 1,
         blockSize |-> 2 ^ ((value % 8) + 4)]

\* createRequest: takes the next message ID and builds the confirmable
\* request; block1 is <<>> when opts.block1 is undefined, else <<opts.block1>>.
createRequest(counter, payload, block2, block1) ==
    LET messageId == getNextMessageId(counter)
    IN  [counter |-> messageId,
         message |-> [type      |-> TYPE_CONFIRMABLE,
                      messageId |-> messageId,
                      token     |-> Null,
                      block2    |-> encodeBlockOption(block2.num, block2.more, block2.size),
                      block1    |-> IF block1 = <<>> THEN Null
                                    ELSE encodeBlockOption(block1[1].num, block1[1].more,
                                                           block1[1].size),
                      payload   |-> payload]]

\* blocks[index] = value on a JavaScript array (index from 0): writing past
\* the end leaves holes.
ArraySet(blocks, index, value) ==
    IF index < Len(blocks) THEN [blocks EXCEPT ![index + 1] = value]
    ELSE blocks \o [i \in 1..(index - Len(blocks)) |-> Hole] \o <<value>>

RECURSIVE Concat(_)
Concat(blocks) ==
    IF blocks = <<>> THEN <<>> ELSE Head(blocks) \o Concat(Tail(blocks))

\* combineBlocks: reduce skips holes, for..of yields undefined for a hole and
\* combined.set(undefined, offset) throws a TypeError.
TypeError == <<-3>>

RECURSIVE combineBlocksSkippingHoles(_)
combineBlocksSkippingHoles(blocks) ==
    IF blocks = <<>> THEN <<>>
    ELSE (IF Head(blocks) = Hole THEN <<>> ELSE Head(blocks))
            \o combineBlocksSkippingHoles(Tail(blocks))

combineBlocks(blocks) ==
    IF \E i \in 1..Len(blocks) : blocks[i] = Hole THEN TypeError
    ELSE Concat(blocks)

----------------------------------------------------------------------------
(* CoAP engine: operations on w = [counter, active, exs]                   *)
(* counter: messageIdCounter; active: activeRequests; exs: the journal of  *)
(* every exchange (its promise, and the requests sendNextBlock returned).  *)
(* The journal keeps a request once however often it is retransmitted      *)
(* (sent), the number of requests built (transmissions) and the last one   *)
(* in full (lastMessage).  It also keeps what the peer did: the number of  *)
(* responses that reached the exchange and the type and code of the last   *)
(* one (responses, lastType, lastCode), whether they were so far the       *)
(* blocks 0, 1, ... of a Block2 series, each with a payload (inOrder2,     *)
(* peerBlocks, peerDone), and whether they were so far the acknowledgements*)
(* of request blocks 0, 1, ... (inOrder1, acks).                           *)

World(counter, active, exs) == [counter |-> counter, active |-> active, exs |-> exs]

MapDelete(m, k) == [x \in (DOMAIN m) \ {k} |-> m[x]]

\* active.resolve(value) / active.reject(error): a promise settles once.
Settle(exs, e, outcome, error, blocks, result) ==
    [exs EXCEPT ![e] =
        [@ EXCEPT !.settleCalls = @ + 1,
                  !.outcome = IF exs[e].outcome = "pending" THEN outcome ELSE @,
                  !.error   = IF exs[e].outcome = "pending" THEN error ELSE @,
                  !.blocks  = IF exs[e].outcome = "pending" THEN blocks ELSE @,
                  !.result  = IF exs[e].outcome = "pending" THEN result ELSE @]]

\* The request without its message ID.
Body(message) ==
    [block2 |-> message.block2, block1 |-> message.block1, payload |-> message.payload]

Block2NumOfBlock1(request) == request.requestBlockNum

\* opts.block2.num: the number of the response block asked for.
Block2Num(request) == Len(request.responseBlocks)

sendNextBlock(w, messageId, cause) ==
    IF messageId \notin DOMAIN w.active THEN w
    ELSE
    LET active  == w.active[messageId]
        request == active.request
        block2  == [num |-> Block2Num(request), more |-> FALSE,
                    size |-> DEFAULT_BLOCK_SIZE]
        start   == request.requestBlockNum * DEFAULT_BLOCK_SIZE
        end     == IF start + DEFAULT_BLOCK_SIZE < Len(request.payload)
                   THEN start + DEFAULT_BLOCK_SIZE ELSE Len(request.payload)
        blockPayload == IF request.totalBlocks # 0
                        THEN SubSeq(request.payload, start + 1, end)
                        ELSE request.payload
        block1  == IF request.totalBlocks # 0
                   THEN <<[num  |-> request.requestBlockNum,
                           more |-> request.requestBlockNum < request.totalBlocks - 1,
                           size |-> DEFAULT_BLOCK_SIZE]>>
                   ELSE <<>>
        built   == createRequest(w.counter, blockPayload, block2, block1)
        \* the journal of an exchange after sendNextBlock has returned message
        Journal(x, message) ==
            [x EXCEPT !.transmissions = @ + 1,
                      !.lastMessage = <<message>>,
                      !.sent = IF cause = "timeout" /\ x.sent # <<>>
                                  /\ x.sent[Len(x.sent)].body = Body(message)
                               THEN @
                               ELSE Append(@, [body |-> Body(message), cause |-> cause])]
    IN  World(built.counter,
              [w.active EXCEPT ![messageId].timer = RETRANSMIT_TIME_SEC * 1000],
              [w.exs EXCEPT ![active.ex] = Journal(@, built.message)])

\* totalBlocks = 0 stands for the property being undefined.
handleBlockWiseTransfer(w, payload) ==
    LET request ==
            [payload           |-> payload,
             requestBlockNum   |-> 0,
             requestBlockAcked |-> -1,
             responseBlocks    |-> <<>>,
             responseMore      |-> TRUE,
             retryCount        |-> 0,
             state             |-> "sending",
             totalBlocks       |-> IF payload # Null /\ Len(payload) > DEFAULT_BLOCK_SIZE
                                   THEN (Len(payload) + DEFAULT_BLOCK_SIZE - 1)
                                            \div DEFAULT_BLOCK_SIZE
                                   ELSE 0]
        messageId == getNextMessageId(w.counter)
        e         == Len(w.exs) + 1
        journal   == [key |-> messageId, payload |-> payload, outcome |-> "pending",
                      error |-> "", blocks |-> <<>>, result |-> <<>>, settleCalls |-> 0,
                      sent |-> <<>>, transmissions |-> 0, lastMessage |-> <<>>,
                      responses |-> 0, lastType |-> -1, lastCode |-> <<>>, threw |-> FALSE,
                      inOrder2 |-> TRUE, peerBlocks |-> <<>>, peerDone |-> FALSE,
                      inOrder1 |-> TRUE, acks |-> 0]
    IN  sendNextBlock(
            World(messageId,
                  \* this.activeRequests.set(messageId, {...})
                  (messageId :> [request |-> request, timer |-> 0, ex |-> e]) @@ w.active,
                  Append(w.exs, journal)),
            messageId, "first")

RetriesExhaustedLate(retryCount) == retryCount > MAX_RETRANSMIT

RetriesExhaustedEarly(retryCount) == retryCount >= MAX_RETRANSMIT - 1

\* The test of handleTimeout that gives up.
RetriesExhausted(retryCount) == retryCount >= MAX_RETRANSMIT

handleTimeout(w, messageId) ==
    IF messageId \notin DOMAIN w.active THEN w
    ELSE
    LET retryCount == w.active[messageId].request.retryCount + 1
        active1    == [w.active EXCEPT ![messageId].request.retryCount = retryCount]
        e          == w.active[messageId].ex
    IN  IF RetriesExhausted(retryCount)
        THEN World(w.counter, MapDelete(active1, messageId),
                   Settle(w.exs, e, "rejected", "timeout", <<>>, <<>>))
        ELSE sendNextBlock(World(w.counter, active1, w.exs), messageId, "timeout")

AdvancesBlock1PastEnd(request, block1) ==
    request.totalBlocks # 0 /\ request.requestBlockNum < request.totalBlocks

\* The test of processResponse that moves on to the next request block.
AdvancesBlock1(request, block1) ==
    request.totalBlocks # 0 /\ request.requestBlockNum < request.totalBlocks - 1

IsClientErrorOnly(codeClass) == codeClass = 4

\* response.isClientError() || response.isServerError()
IsErrorResponse(codeClass) == codeClass \in {4, 5}

\* response = [type, messageId, codeClass, codeDetail, block1, block2, payload];
\* block1 / block2 are the option's bytes, or Null when the option is absent.
processResponse(w, response) ==
    IF response.messageId \notin DOMAIN w.active THEN w
    ELSE
    LET messageId == response.messageId
        e         == w.active[messageId].ex
        \* clear retry timer
        active0   == [w.active EXCEPT ![messageId].timer = 0]
        request0  == active0[messageId].request
    IN  IF IsErrorResponse(response.codeClass)
        THEN World(w.counter, MapDelete(active0, messageId),
                   Settle(w.exs, e, "rejected",
                          \* `CoAP error ${response.codeClass}.${response.codeDetail}`
                          "CoAP error " \o ToString(response.codeClass) \o "."
                              \o ToString(response.codeDetail),
                          <<>>, <<>>))
        ELSE
        LET hasBlock1 == response.block1 # Null
            block1    == decodeBlockOption(response.block1)
            request1  == IF hasBlock1
                         THEN [request0 EXCEPT !.requestBlockAcked = block1.num]
                         ELSE request0
        IN  IF hasBlock1 /\ AdvancesBlock1(request1, block1)
            THEN sendNextBlock(
                     World(w.counter,
                           [active0 EXCEPT ![messageId].request =
                               [request1 EXCEPT !.requestBlockNum = @ + 1]],
                           w.exs),
                     messageId, "block1")
            ELSE
            LET hasBlock2 == response.block2 # Null
                block2    == decodeBlockOption(response.block2)
                blocks2   == IF hasBlock2
                             THEN IF response.payload # Null
                                  THEN ArraySet(request1.responseBlocks, block2.num,
                                                response.payload)
                                  ELSE request1.responseBlocks
                             ELSE IF response.payload # Null
                                  THEN ArraySet(request1.responseBlocks, 0, response.payload)
                                  ELSE request1.responseBlocks
                active2   == [active0 EXCEPT ![messageId].request =
                                 [request1 EXCEPT !.responseBlocks = blocks2]]
            IN  IF hasBlock2 /\ block2.more
                THEN sendNextBlock(World(w.counter, active2, w.exs), messageId, "block2")
                ELSE
                LET fullPayload == combineBlocks(blocks2)
                IN  IF fullPayload = TypeError
                    THEN World(w.counter, active2, [w.exs EXCEPT ![e].threw = TRUE])
                    ELSE World(w.counter, MapDelete(active2, messageId),
                               Settle(w.exs, e, "resolved", "", blocks2, fullPayload))

----------------------------------------------------------------------------
(* CoAP engine: the state machine *)

InitCoAPVars ==
    /\ activeRequests = <<>>
    /\ exchanges = <<>>
    /\ budget = MaxResponses

\* The controller after its constructor: responseCallbacks is not assigned.
InitCtlVars ==
    /\ responseCallbacks = Undefined
    /\ waits = <<>>
    /\ received = <<>>
    /\ raised = FALSE

\* The controller after its constructor, with no connect() call yet, and
\* beside it the WebSerialHandler of the application.
InitConnVars ==
    /\ isConnected = FALSE
    /\ connectPc = "idle"
    /\ connectError = "none"
    /\ ioError = "none"
    /\ closed = FALSE
    /\ requests = <<>>
    \* the WebSerialHandler after its constructor and the application's flag
    /\ webSerial = [pc |-> "idle", open |-> FALSE, keepReading |-> FALSE,
                    reading |-> FALSE, pong |-> FALSE]
    /\ appConnected = FALSE
    \* the controller's deviceInfo, with no identifyDevice() call yet
    /\ deviceInfo = [model |-> <<>>, ports |-> 0, version |-> <<>>, checksum |-> <<>>]
    /\ identifyPc = "idle"
    /\ identified = <<>>
    \* the codec and the YANG model browser, asked nothing yet
    /\ sidPc = "idle"
    /\ sidKey = <<>>
    /\ sidNumber = 0
    /\ sidBytes = <<>>
    /\ sidDecoded = <<>>
    /\ sidFound = <<>>
    /\ sidBack = <<>>
    \* the MUP1Protocol of the YANG browser after its constructor
    /\ rxType = 0
    /\ rxData = <<>>
    /\ rxBytes = <<>>
    /\ rxFed = 0
    /\ rxProtocol = [state |-> 0, frameBuffer |-> <<>>, dataBuffer |-> <<>>,
                     expectedLength |-> 0, escapeNext |-> FALSE]
    /\ rxFrames = <<>>

\* The controller and the handler after their constructors, a CoapClient
\* and a request builder that have built nothing, a codec that has been
\* given nothing.
InitRest ==
    /\ InitConnVars
    /\ clientMessageId = 0
    /\ clientArgs = <<>>
    /\ clientMessage = <<>>
    /\ clientBuilt = 0
    /\ requestArgs = <<>>
    /\ requestBuilt = <<>>
    /\ cborValue = <<>>
    /\ cborBytes = <<>>
    /\ cborDecoded = <<>>
    /\ cborAgain = <<>>
    /\ cborPc = "idle"

TheWorld == World(messageIdCounter, activeRequests, exchanges)

Become(w) ==
    /\ messageIdCounter' = w.counter
    /\ activeRequests' = w.active
    /\ exchanges' = w.exs

\* get / post / put / ...: the application submits a request.  The request
\* payloads handed to the engine: none, or n bytes.  Lengths explored: whole
\* multiples of the block size (one block: not block-wise) and the longest
\* length, with a last block of one byte.
Submit ==
    /\ Len(exchanges) < MaxExchanges
    /\ LET MakePayload(n) == [i \in 1..n |-> (i - 1) % 251]
           PayloadLens ==
               {DEFAULT_BLOCK_SIZE * k : k \in 1..(MaxBlocks - 1)}
               \cup {DEFAULT_BLOCK_SIZE * (MaxBlocks - 1) + 1}
       IN  \E payload \in {Null} \cup {MakePayload(n) : n \in PayloadLens} :
              Become(handleBlockWiseTransfer(TheWorld, payload))
    /\ UNCHANGED <<budget, mupVars, ctlVars, restVars>>

\* The retransmission timer of an exchange expires.
Timeout ==
    /\ \E messageId \in DOMAIN activeRequests :
          /\ activeRequests[messageId].timer # 0
          /\ Become(handleTimeout(TheWorld, messageId))
    /\ UNCHANGED <<budget, mupVars, ctlVars, restVars>>

\* Message IDs a peer message may carry: the key of an exchange or the
\* message ID of the last request built for it.
PeerMessageIds ==
    {exchanges[e].key : e \in 1..Len(exchanges)}
    \cup {exchanges[e].lastMessage[1].messageId : e \in 1..Len(exchanges)}

\* The block option a peer wrote, read back as the peer meant it.
PeerBlock(bytes) ==
    IF bytes = Null THEN [num |-> -1, more |-> FALSE]
    ELSE [num |-> BytesToInt(bytes) \div 16, more |-> (BytesToInt(bytes) \div 8) % 2 = 1]

\* The journal's record of a response that found its exchange.
Matched(exs, active, response) ==
    LET \* the journal of exchange x after response has reached it
        Observe(x) ==
            LET b1 == PeerBlock(response.block1)
                b2 == PeerBlock(response.block2)
                next2 == /\ x.inOrder2 /\ ~x.peerDone
                         /\ response.codeClass = 2 /\ b1.num = -1
                         /\ b2.num = Len(x.peerBlocks) /\ response.payload # Null
                next1 == /\ x.inOrder1
                         /\ response.codeClass = 2 /\ b2.num = -1
                         /\ b1.num = x.acks
            IN  [x EXCEPT !.responses  = @ + 1,
                          !.lastType   = response.type,
                          !.lastCode   = <<response.codeClass, response.codeDetail>>,
                          !.inOrder2   = next2,
                          !.peerBlocks = IF next2 THEN Append(@, response.payload) ELSE @,
                          !.peerDone   = IF next2 THEN ~b2.more ELSE @,
                          !.inOrder1   = next1,
                          !.acks       = IF next1 THEN @ + 1 ELSE @]
    IN
    IF response.messageId \in DOMAIN active
    THEN [exs EXCEPT ![active[response.messageId].ex] = Observe(@)]
    ELSE exs

\* A message of the peer reaches processResponse.
Response ==
    /\ budget > 0
    /\ LET \* what the peer may send: a 2.xx response with any options and
           \* payload, or a bare 4.xx / 5.xx response
           PeerResponses(messageId) ==
               {[type |-> TYPE_ACKNOWLEDGMENT, messageId |-> messageId, codeClass |-> 2, codeDetail |-> 0,
                 block1  |-> IF b1 = -1 THEN Null ELSE encodeBlockOption(b1, FALSE, DEFAULT_BLOCK_SIZE),
                 block2  |-> IF b2 = -1 THEN Null ELSE encodeBlockOption(b2, more, DEFAULT_BLOCK_SIZE),
                 payload |-> payload] :
                   b1 \in -1..MaxNum, b2 \in -1..MaxNum, more \in BOOLEAN,
                   payload \in {Null, Chunk(MaxResponses - budget + 1)}}
               \cup {[type |-> TYPE_ACKNOWLEDGMENT, messageId |-> messageId,
                      codeClass |-> codeClass, codeDetail |-> 0,
                      block1 |-> Null, block2 |-> Null, payload |-> Null] : codeClass \in {4, 5}}
       IN
       \E messageId \in PeerMessageIds :
          \E response \in PeerResponses(messageId) :
              /\ budget' = IF messageId \in DOMAIN activeRequests THEN budget - 1 ELSE budget
              /\ Become(processResponse(
                     World(messageIdCounter, activeRequests,
                           Matched(exchanges, activeRequests, response)),
                     response))
    /\ UNCHANGED <<mupVars, ctlVars, restVars>>

----------------------------------------------------------------------------
(* Specifications *)

Init ==
    /\ messageIdCounter \in InitialCounters
    /\ InitCoAPVars
    /\ fType = MUP1_CB_PING
    /\ fData = <<>>
    /\ InitMUP1Vars
    /\ InitCtlVars
    /\ InitRest

Next == Submit \/ Timeout \/ Response

Spec == Init /\ [][Next]_vars

\* Payload bytes explored: every byte the escape rules single out and an
\* ordinary byte.
InitMUP1 ==
    /\ fType \in FrameTypes
    /\ fData \in SeqsUpTo({0, 255, MUP1_SOF, MUP1_EOF, MUP1_ESC, 65}, MaxPayload)
    /\ InitMUP1Vars
    /\ messageIdCounter = 0
    /\ InitCoAPVars
    /\ InitCtlVars
    /\ InitRest

SpecMUP1 == InitMUP1 /\ [][CreateFrame \/ CorruptChecksum \/ ParseData]_vars

----------------------------------------------------------------------------
(* Properties: MUP1 framer (checked under SpecMUP1) *)

LastFour(bytes) == SubSeq(bytes, Len(bytes) - 3, Len(bytes))
UpToEOF(bytes)  == SubSeq(bytes, 1, Len(bytes) - 4)

\* C1: feeding the bytes of createFrame(type, payload) to a fresh parser
\* yields exactly one frame, with the input's type and data and the four
\* emitted checksum characters, on the last emitted byte and not before,
\* and leaves the parser in state init.
C1_RoundTrip ==
    (emitted # <<>> /\ stream = emitted) =>
        IF fed = Len(stream)
        THEN /\ frames = <<[type |-> fType, data |-> fData, checksum |-> LastFour(emitted)]>>
             /\ state = "init"
        ELSE frames = <<>>

\* C8: a received frame whose four checksum characters are not the checksum
\* of its bytes from SOF through the EOF(s) is never returned by parseData.
C8_BadChecksumDiscarded ==
    (stream # <<>> /\ LastFour(stream) # calculateChecksum(UpToEOF(stream))) =>
        frames = <<>>

\* Number of EOF bytes createFrame emitted after the escaped payload.
EmittedEOFs == Len(emitted) - 6 - Len(encodeData(fData))

\* C9: createFrame emits a second EOF exactly when the number of payload
\* bytes before escaping is even, and a single EOF when it is odd.
C9_SecondEOFIffEvenPayload ==
    emitted # <<>> =>
        EmittedEOFs = (IF Len(fData) % 2 = 0 THEN 2 ELSE 1)

RECURSIVE SumBytes(_)
SumBytes(bytes) == IF bytes = <<>> THEN 0 ELSE Head(bytes) + SumBytes(Tail(bytes))

\* 16-bit one's complement of the sum with end-around carry (folded twice).
OnesComplementSum16(bytes) ==
    LET s0 == SumBytes(bytes)
        s1 == (s0 % 65536) + (s0 \div 65536)
        s2 == (s1 % 65536) + (s1 \div 65536)
    IN  65535 - (s2 % 65536)

Hex4(v) ==
    <<HexChar(v \div 4096), HexChar((v \div 256) % 16), HexChar((v \div 16) % 16), HexChar(v % 16)>>

\* C10: the checksum createFrame appends is the 16-bit one's complement of
\* the end-around-carry sum of every emitted byte from SOF through the last
\* EOF, as four upper-case hexadecimal digits, most significant first.
C10_OnesComplementChecksum ==
    emitted # <<>> =>
        LastFour(emitted) = Hex4(OnesComplementSum16(UpToEOF(emitted)))

----------------------------------------------------------------------------
(* Properties: CoAP engine (checked under Spec) *)

Exs == 1..Len(exchanges)

Registered(e) ==
    /\ exchanges[e].key \in DOMAIN activeRequests
    /\ activeRequests[exchanges[e].key].ex = e

Blockwise(x) == x.payload # Null /\ Len(x.payload) > DEFAULT_BLOCK_SIZE

\* ceil(N / B)
BlocksOf(x) == (Len(x.payload) + DEFAULT_BLOCK_SIZE - 1) \div DEFAULT_BLOCK_SIZE

Min(a, b) == IF a < b THEN a ELSE b

\* C2: the key under which handleBlockWiseTransfer registers an exchange is
\* the identifier (message ID; the requests carry no token) of every request
\* sendNextBlock builds for it, so that a response echoing the request's
\* identifier finds the exchange.
C2_RequestCarriesRegisteredId ==
    \A e \in Exs :
        exchanges[e].lastMessage # <<>> =>
            exchanges[e].lastMessage[1].messageId = exchanges[e].key

\* C3: as long as no response has reached an exchange, it has been
\* transmitted once plus once per timer expiry so far, always the same
\* request, fewer than 5 expiries have occurred and its timer is armed;
\* with the fifth expiry it is rejected with the timeout error and removed
\* from the registry, having been transmitted exactly 5 times, and nothing
\* is transmitted for it afterwards.
C3_FiveTransmissionsThenTimeout ==
    \A e \in Exs :
        LET x == exchanges[e]
        IN  x.responses = 0 =>
                /\ Len(x.sent) = 1
                /\ IF x.outcome = "pending"
                   THEN /\ Registered(e)
                        /\ activeRequests[x.key].timer = 3000
                        /\ x.transmissions = activeRequests[x.key].request.retryCount + 1
                        /\ x.transmissions <= 5
                   ELSE /\ x.outcome = "rejected" /\ x.error = "timeout"
                        /\ x.settleCalls = 1
                        /\ x.transmissions = 5
                        /\ x.key \notin DOMAIN activeRequests

C3_Witness ==
    \E e \in Exs :
        /\ exchanges[e].responses = 0
        /\ exchanges[e].outcome = "rejected"
        /\ exchanges[e].transmissions = 5

HasHole(blocks) == \E i \in 1..Len(blocks) : blocks[i] = Hole

C5_NextBlockOnlyAfterItsAck ==
    [][\A k \in DOMAIN activeRequests :
          (/\ k \in DOMAIN activeRequests'
           /\ activeRequests'[k].request.requestBlockNum
                 = activeRequests[k].request.requestBlockNum + 1)
          => activeRequests'[k].request.requestBlockAcked
                 = activeRequests[k].request.requestBlockNum]_vars

\* C6: while the peer answers the Block2 requests in order (num = 0, 1, ...,
\* each with a payload, M=1 on all but the last), the first request asks
\* for block 0 and each follow-up request for exactly one block more than
\* the previous one, one follow-up per answer with M=1; the answer with
\* M=0 resolves the exchange, exactly once, with the concatenation of the
\* block payloads in index order, and no earlier answer resolves it.
C6_InOrderBlock2 ==
    \A e \in Exs :
        LET x == exchanges[e]
        IN  x.inOrder2 =>
                /\ \A j \in 1..Len(x.sent) : PeerBlock(x.sent[j].body.block2).num = j - 1
                /\ Len(x.sent) = Len(x.peerBlocks) + (IF x.peerDone THEN 0 ELSE 1)
                /\ IF x.peerDone
                   THEN /\ x.outcome = "resolved"
                        /\ x.settleCalls = 1
                        /\ x.result = Concat(x.peerBlocks)
                   ELSE x.outcome # "resolved"

C6_Witness ==
    \E e \in Exs :
        /\ exchanges[e].inOrder2
        /\ exchanges[e].peerDone
        /\ Len(exchanges[e].peerBlocks) = 3
        /\ exchanges[e].outcome = "resolved"

\* Payloads of the requests of a journal, concatenated in order.
RECURSIVE SentPayload(_)
SentPayload(sent) ==
    IF sent = <<>> THEN <<>> ELSE Head(sent).body.payload \o SentPayload(Tail(sent))

\* C7: for a request payload of N > 256 bytes, every request carries
\* Block1(num = i, M = 1 unless i is the last block) and the payload bytes
\* [i*256, min((i+1)*256, N)) for some i < ceil(N/256); while every block is
\* acknowledged in turn the requests are the blocks 0, 1, ... in order, one
\* per acknowledgement, and with the acknowledgement of the last block the
\* exchange completes after exactly ceil(N/256) request/response pairs, the
\* payloads sent concatenating to the input.
C7_Block1Transfer ==
    \A e \in Exs :
        LET x == exchanges[e]
            N == Len(x.payload)
            total == BlocksOf(x)
        IN  Blockwise(x) =>
                /\ \A j \in 1..Len(x.sent) :
                      LET b == x.sent[j].body
                          i == PeerBlock(b.block1).num
                      IN  /\ b.block1 # Null
                          /\ i \in 0..(total - 1)
                          /\ PeerBlock(b.block1).more = (i < total - 1)
                          /\ b.payload = SubSeq(x.payload, i * 256 + 1, Min((i + 1) * 256, N))
                /\ x.inOrder1 =>
                      /\ \A j \in 1..Len(x.sent) : PeerBlock(x.sent[j].body.block1).num = j - 1
                      /\ Len(x.sent) = Min(x.acks + 1, total)
                      /\ IF x.acks = total
                         THEN /\ x.outcome = "resolved"
                              /\ x.responses = total
                              /\ SentPayload(x.sent) = x.payload
                         ELSE x.outcome # "resolved"

C7_Witness ==
    \E e \in Exs :
        /\ Blockwise(exchanges[e])
        /\ exchanges[e].inOrder1
        /\ exchanges[e].acks = 3
        /\ BlocksOf(exchanges[e]) = 3
        /\ exchanges[e].outcome = "resolved"

----------------------------------------------------------------------------
(* Properties: escaping (checked under SpecMUP1) *)

\* The escape table: 00 -> 5C 30, FF -> 5C 46, 3E -> 5C 3E, 3C -> 5C 3C,
\* 5C -> 5C 5C, every other byte unchanged.
EscapeOf(byte) ==
    CASE byte = 0   -> <<92, 48>>
      [] byte = 255 -> <<92, 70>>
      [] byte = 62  -> <<92, 62>>
      [] byte = 60  -> <<92, 60>>
      [] byte = 92  -> <<92, 92>>
      [] OTHER      -> <<byte>>

RECURSIVE EscapeAll(_)
EscapeAll(d) == IF d = <<>> THEN <<>> ELSE EscapeOf(Head(d)) \o EscapeAll(Tail(d))

RECURSIVE NoBareSpecial(_)
\* No 00, FF, 3E or 3C outside an escape pair, and no escape byte left open.
NoBareSpecial(enc) ==
    IF enc = <<>> THEN TRUE
    ELSE IF Head(enc) = 92 THEN Len(enc) >= 2 /\ NoBareSpecial(Tail(Tail(enc)))
    ELSE Head(enc) \notin {0, 255, 62, 60} /\ NoBareSpecial(Tail(enc))

\* The parser's data / esc states reading an escaped payload.
Unescape(enc) == parseData(Parser("data", <<>>, 0, <<>>), enc).p

\* C11: the escaped payload of an emitted frame is the escape table applied
\* to every payload byte, it holds no 00, FF, 3E or 3C outside an escape
\* pair, and the parser's data / esc states map it back to the payload:
\* read on its own it leaves the parser in state data with the original
\* bytes, and the parser that has read the emitted payload holds them.
C11_EscapeRoundTrip ==
    emitted # <<>> =>
        LET enc == encodeData(fData)
        IN  /\ enc = EscapeAll(fData)
            /\ SubSeq(emitted, 3, 2 + Len(enc)) = enc
            /\ NoBareSpecial(enc)
            /\ Unescape(enc).state = "data"
            /\ Unescape(enc).mup1Data = fData
            /\ fed >= 2 + Len(enc) => mup1Data = fData

\* A payload of three bytes that are all escaped has been read back.
C11_Witness ==
    /\ emitted # <<>>
    /\ fData = <<0, 255, MUP1_EOF>>
    /\ fed >= 2 + Len(encodeData(fData))
    /\ mup1Data = fData

----------------------------------------------------------------------------
(* MUP1 framer: the receiving side on a line that carries several frames   *)
(* (SpecLine).  The line is fixed at the start; the reader hands it to     *)
(* parseData slice by slice.  emitted is the last frame on the line, a     *)
(* frame createFrame built from fType and fData.                           *)

MaxSlice == 8    \* longest slice handed to parseData in one call
MaxWhole == 24   \* longest line that is also parsed in one call

\* What precedes the last frame on the line.  On a short line: nothing,
\* bytes outside a frame, a complete frame, a frame cut short.  Or a long
\* frame of the device: n plain payload bytes, possibly one more payload
\* byte 3E (escaped), one or two EOFs and four checksum characters, with
\* payload lengths around the parser's limit.
Leads ==
    LET ShortLeads ==
            {<<>>,
             <<65, MUP1_EOF>>,
             createFrame(MUP1_CB_COAP, <<MUP1_ESC, MUP1_EOF>>),
             <<MUP1_SOF, MUP1_CB_COAP, 65>>}
        LongPayloadLens == {MaxFrameData, MaxFrameData + 1, MaxFrameData + 2}
        LongFrames ==
            {<<MUP1_SOF, MUP1_CB_TRACE>> \o [i \in 1..n |-> 65] \o last \o eofs
             \o <<48, 48, 48, 48>> :
                n \in LongPayloadLens,
                last \in {<<>>, <<MUP1_ESC, MUP1_SOF>>},
                eofs \in {<<MUP1_EOF>>, <<MUP1_EOF, MUP1_EOF>>}}
    IN  ShortLeads \cup LongFrames

\* The parser the constructor leaves.
NewParser == Parser("init", <<>>, 0, <<>>)

ParserForgotten == Parser("init", <<>>, 0, <<>>)

\* The parser as a call of parseData finds it.
ParserNow == Parser(state, mup1Data, mup1Type, checksum)

\* The payloads of the last frame are such that createFrame and the parser
\* agree on the number of EOFs for each of them.
InitLine ==
    /\ fType = MUP1_CB_PING
    /\ fData \in {<<>>, <<65>>, <<0, 255>>}
    /\ emitted = createFrame(fType, fData)
    /\ \E lead \in Leads : stream = lead \o emitted
    /\ fed = 0
    /\ state = "init"
    /\ mup1Data = <<>>
    /\ mup1Type = 0
    /\ checksum = <<>>
    /\ frames = <<>>
    /\ messageIdCounter = 0
    /\ InitCoAPVars
    /\ InitCtlVars
    /\ InitRest

\* The reader hands the next slice of the line, possibly an empty one, to
\* parseData.
ReadSlice ==
    /\ fed < Len(stream)
    /\ \E n \in 0..MaxSlice :
          /\ fed + n <= Len(stream)
          /\ LET r == parseData(ParserNow, SubSeq(stream, fed + 1, fed + n))
             IN  /\ fed' = fed + n
                 /\ state' = r.p.state
                 /\ mup1Data' = r.p.mup1Data
                 /\ mup1Type' = r.p.mup1Type
                 /\ checksum' = r.p.checksum
                 /\ frames' = frames \o r.frames
    /\ UNCHANGED <<fType, fData, emitted, stream, coapVars, ctlVars, restVars>>

SpecLine == InitLine /\ [][ReadSlice]_vars

----------------------------------------------------------------------------
(* Properties: the receiving side (checked under SpecLine) *)

\* C12: the frames returned so far by the successive parseData calls on the
\* slices of the line, in order, are the frames one parseData call on the
\* same bytes returns to a new parser, and the parser is left as that one
\* call leaves it, wherever the slices were cut.
C12_IncrementalParsing ==
    Len(stream) <= MaxWhole =>
        LET whole == parseData(NewParser, SubSeq(stream, 1, fed))
        IN  /\ frames = whole.frames
            /\ Parser(state, mup1Data, mup1Type, checksum) = whole.p

\* A frame has been returned and a later call ended inside an escape pair
\* of the next frame.
C12_Witness ==
    /\ Len(stream) <= MaxWhole
    /\ Len(frames) = 1
    /\ state = "esc"
    /\ fed < Len(stream)

\* The frame before the last one holds more than 1024 payload bytes.
LeadExceeds ==
    /\ Len(stream) > MaxFrameData + 3
    /\ stream[MaxFrameData + 3] # MUP1_EOF

\* Number of bytes of the line up to the payload byte 1025 of the long frame.
ExceededAt == IF stream[MaxFrameData + 3] = MUP1_ESC THEN MaxFrameData + 4 ELSE MaxFrameData + 3

\* C13: once a frame has accumulated more than 1024 payload bytes, the
\* parser leaves state data for init with the next byte and never delivers
\* that frame, and the well-formed frame that follows it on the line is
\* delivered with its type, payload and checksum.
C13_OversizeAbandonedThenResync ==
    LeadExceeds =>
        /\ Len(mup1Data) > MaxFrameData =>
              /\ Len(mup1Data) = MaxFrameData + 1
              /\ state = "init" \/ (state = "data" /\ fed = ExceededAt)
        /\ \A i \in 1..Len(frames) : Len(frames[i].data) <= MaxFrameData
        /\ fed = Len(stream) =>
              frames = <<[type |-> fType, data |-> fData, checksum |-> LastFour(emitted)]>>

----------------------------------------------------------------------------
(* CoAP engine: several exchanges at a time and every kind of inbound      *)
(* message, without block-wise payloads (SpecRegistry)                     *)

MaxPending == 2   \* exchanges submitted
MaxInbound == 2   \* inbound messages handed to processResponse

InitRegistry ==
    /\ messageIdCounter \in InitialCounters
    /\ activeRequests = <<>>
    /\ exchanges = <<>>
    /\ budget = MaxInbound
    /\ fType = MUP1_CB_PING
    /\ fData = <<>>
    /\ InitMUP1Vars
    /\ InitCtlVars
    /\ InitRest

\* get(path): the application submits a request without payload.
SubmitRequest ==
    /\ Len(exchanges) < MaxPending
    /\ Become(handleBlockWiseTransfer(TheWorld, Null))
    /\ UNCHANGED <<budget, mupVars, ctlVars, restVars>>

\* Message IDs an inbound message may carry: the key of any exchange so far,
\* the message ID of the last request built for it, or a stray one, which
\* no request of these runs is registered under or carries.
InboundMessageIds == PeerMessageIds \cup {4096}

\* Inbound messages: a reset, an empty acknowledgement, a 2.05 with a
\* payload, a 2.04 without one, a 4.04 and a 5.00.
InboundMessages(messageId) ==
    {[type |-> k[1], messageId |-> messageId, codeClass |-> k[2], codeDetail |-> k[3],
      block1 |-> Null, block2 |-> Null,
      payload |-> IF k[4] THEN Chunk(MaxInbound - budget + 1) ELSE Null] :
        k \in {<<TYPE_RESET, 0, 0, FALSE>>,
               <<TYPE_ACKNOWLEDGMENT, 0, 0, FALSE>>,
               <<TYPE_ACKNOWLEDGMENT, 2, 5, TRUE>>,
               <<TYPE_ACKNOWLEDGMENT, 2, 4, FALSE>>,
               <<TYPE_ACKNOWLEDGMENT, 4, 4, FALSE>>,
               <<TYPE_ACKNOWLEDGMENT, 5, 0, FALSE>>}}

\* An inbound message reaches processResponse.
Inbound ==
    /\ budget > 0
    /\ \E messageId \in InboundMessageIds :
          \E response \in InboundMessages(messageId) :
              /\ budget' = budget - 1
              /\ Become(processResponse(
                     World(messageIdCounter, activeRequests,
                           Matched(exchanges, activeRequests, response)),
                     response))
    /\ UNCHANGED <<mupVars, ctlVars, restVars>>

NextRegistry == SubmitRequest \/ Timeout \/ Inbound

SpecRegistry == InitRegistry /\ [][NextRegistry]_vars

----------------------------------------------------------------------------
(* Properties: CoAP engine, several exchanges (checked under SpecRegistry) *)

\* C14: no two exchanges that are pending at the same time have requests
\* outstanding that carry the same token value.
C14_NoSharedToken ==
    \A e1 \in Exs : \A e2 \in Exs :
        (e1 # e2 /\ Registered(e1) /\ Registered(e2)) =>
            exchanges[e1].lastMessage[1].token # exchanges[e2].lastMessage[1].token

----------------------------------------------------------------------------
(* Controller: waiting for a response frame and dispatching inbound frames *)
(* (SpecController).  LAN9662Controller in src/unnamed/part_000 has the    *)
(* same two methods.  The device answers the n-th waitForResponse call     *)
(* with a frame of the awaited type whose payload is the byte n, so that   *)
(* the replies can be told apart; it may also announce itself unasked.     *)

MaxWaits  == 2   \* waitForResponse calls
MaxFrames == 3   \* frames the device sends

\* String.fromCharCode(frame.type)
fromCharCode(code) ==
    CASE code = MUP1_CB_ANNOUNCE -> "A"
      [] code = MUP1_CB_COAP     -> "C"
      [] code = MUP1_CB_PING     -> "P"
      [] code = MUP1_CB_TRACE    -> "T"
      [] code = MUP1_CB_SYSREQ   -> "S"

\* resolve(value) of the promise of wait w: a promise settles once.
ResolveWait(ws, w, outcome, value, late) ==
    [ws EXCEPT ![w] =
        [@ EXCEPT !.settleCalls = @ + 1,
                  !.outcome = IF ws[w].outcome = "pending" THEN outcome ELSE @,
                  !.value   = IF ws[w].outcome = "pending" THEN value ELSE @,
                  !.late    = IF ws[w].outcome = "pending" THEN late ELSE @]]

\* waitForResponse(type): arms the timer and stores the handler under type.
\* A callbacks entry of 0 stands for a property that is absent.
waitForResponse(c, type) ==
    LET w == Len(c.waits) + 1
        callbacks == IF c.callbacks = Undefined
                     THEN [t \in CallbackTypes |-> 0] ELSE c.callbacks
    IN  [c EXCEPT !.callbacks = [callbacks EXCEPT ![type] = w],
                  !.waits = Append(@, [type |-> type, outcome |-> "pending", value |-> 0,
                                       late |-> FALSE, timer |-> TRUE, settleCalls |-> 0])]

\* A timer callback that leaves the stored handler in place.
waitTimedOutHandlerKept(c, w) ==
    [c EXCEPT !.waits = [ResolveWait(@, w, "null", 0, FALSE) EXCEPT ![w].timer = FALSE]]

\* The timer callback of wait w.
waitTimedOut(c, w) ==
    [c EXCEPT !.callbacks = [@ EXCEPT ![c.waits[w].type] = 0],
              !.waits = [ResolveWait(@, w, "null", 0, FALSE) EXCEPT ![w].timer = FALSE]]

\* The body of handleIncomingData's loop for one frame.  Reading a property
\* of this.responseCallbacks while it is undefined throws a TypeError.
\* tag: the reply's number, the wait it answers, 0 for an announcement.
dispatchFrame(c, frame) ==
    LET \* processFrame, without result.data (a rendering of result.raw)
        processed == [type |-> fromCharCode(frame.type), typeCode |-> frame.type,
                      raw |-> frame.data]
        tag  == IF Len(processed.raw) = 1 THEN processed.raw[1] ELSE 0
        late == tag \in 1..Len(c.waits) /\ c.waits[tag].outcome = "null"
        seen == Append(c.received, [type |-> processed.type, tag |-> tag, late |-> late])
    IN  IF c.callbacks = Undefined
        THEN [c EXCEPT !.received = seen, !.raised = TRUE]
        ELSE IF c.callbacks[processed.type] # 0
        THEN LET w == c.callbacks[processed.type]
             IN  [c EXCEPT !.received = seen,
                           !.waits = [ResolveWait(@, w, "frame", tag, late)
                                          EXCEPT ![w].timer = FALSE],
                           !.callbacks = [@ EXCEPT ![processed.type] = 0]]
        ELSE [c EXCEPT !.received = seen]

RECURSIVE dispatchFrames(_, _, _)
\* handleIncomingData's loop; thrown: this call has thrown and the loop is left.
dispatchFrames(c, fs, thrown) ==
    IF fs = <<>> \/ thrown THEN c
    ELSE LET d == dispatchFrame(c, Head(fs))
         IN  dispatchFrames(d, Tail(fs), d.callbacks = Undefined)

\* c = [callbacks, waits, received, raised]: the controller's part of the state.
TheController ==
    [callbacks |-> responseCallbacks, waits |-> waits, received |-> received,
     raised |-> raised]

BecomeController(c) ==
    /\ responseCallbacks' = c.callbacks
    /\ waits' = c.waits
    /\ received' = c.received
    /\ raised' = c.raised

InitController ==
    /\ fType = MUP1_CB_PING
    /\ fData = <<>>
    /\ InitMUP1Vars
    /\ messageIdCounter = 0
    /\ InitCoAPVars
    /\ InitCtlVars
    /\ InitRest

\* A caller starts to wait for a ping reply or a CoAP reply.
WaitForResponse ==
    /\ Len(waits) < MaxWaits
    /\ \E type \in {"P", "C"} : BecomeController(waitForResponse(TheController, type))
    /\ UNCHANGED <<mupVars, coapVars, restVars>>

\* The timeout of a waitForResponse call elapses.
WaitTimeout ==
    /\ \E w \in 1..Len(waits) :
          /\ waits[w].timer
          /\ BecomeController(waitTimedOut(TheController, w))
    /\ UNCHANGED <<mupVars, coapVars, restVars>>

\* The serial port hands the bytes of one frame to handleIncomingData.
HandleIncomingData ==
    /\ Len(received) < MaxFrames
    /\ LET \* What the device may send next: its reply to a waitForResponse
           \* call it has not answered yet, or an announcement.  charCode:
           \* the frame type the device uses to answer a wait for type.
           DeviceData ==
               LET charCode(type) == CHOOSE code \in FrameTypes : fromCharCode(code) = type
               IN  {createFrame(charCode(waits[w].type), <<w>>) :
                       w \in {v \in 1..Len(waits) : \A i \in 1..Len(received) : received[i].tag # v}}
                   \cup {createFrame(MUP1_CB_ANNOUNCE, <<86, 68>>)}
       IN
       \E data \in DeviceData :
          LET r == parseData(ParserNow, data)
          IN  /\ state' = r.p.state
              /\ mup1Data' = r.p.mup1Data
              /\ mup1Type' = r.p.mup1Type
              /\ checksum' = r.p.checksum
              /\ frames' = frames \o r.frames
              /\ BecomeController(dispatchFrames(TheController, r.frames, FALSE))
    /\ UNCHANGED <<fType, fData, emitted, stream, fed, coapVars, restVars>>

SpecController == InitController /\ [][WaitForResponse \/ WaitTimeout \/ HandleIncomingData]_vars

----------------------------------------------------------------------------
(* Properties: inbound messages nobody waits for, late replies, waits of   *)
(* the same type (checked under SpecController)                            *)

\* processResponse leaves the engine as it is for every message whose ID
\* has no entry in activeRequests.
UnknownMessageIdDropped ==
    \A messageId \in InboundMessageIds \ DOMAIN activeRequests :
        \A response \in InboundMessages(messageId) :
            processResponse(TheWorld, response) = TheWorld

\* The frame handleIncomingData looked at in this step, if any, was of a
\* type no handler was stored for.
NobodyWaited ==
    /\ Len(received') = Len(received) + 1
    /\ \/ responseCallbacks = Undefined
       \/ responseCallbacks[received'[Len(received')].type] = 0

\* C15: an inbound message that matches no pending request is dropped
\* without an error: processResponse changes nothing for a message ID
\* without entry, and handleIncomingData never throws and leaves every
\* waiting call, timer and stored handler as they were for a frame of a
\* type nobody waits for, also before the first waitForResponse call.
C15_UnmatchedInboundDropped ==
    /\ [](~raised /\ UnknownMessageIdDropped)
    /\ [][NobodyWaited => UNCHANGED <<responseCallbacks, waits>>]_vars

\* An exchange of the engine that has timed out stays rejected, has no
\* registry entry and has nothing transmitted for it any more.
TimedOutExchangeStaysClosed ==
    \A e \in Exs :
        exchanges[e].error = "timeout" =>
            /\ exchanges[e].outcome = "rejected"
            /\ exchanges[e].settleCalls = 1
            /\ exchanges[e].transmissions = MAX_RETRANSMIT
            /\ exchanges[e].key \notin DOMAIN activeRequests

\* C18: a reply that arrives after its request has timed out is dropped:
\* it does not change the outcome of the timed-out request and is not
\* delivered as the result of another request; for the engine, a timed-out
\* exchange stays rejected and unregistered with nothing more transmitted.
C18_LateReplyDropped ==
    /\ \A w \in 1..Len(waits) :
          /\ waits[w].outcome = "frame" => ~waits[w].late
          /\ (\E i \in 1..Len(received) : received[i].tag = w /\ received[i].late) =>
                waits[w].outcome = "null"
    /\ TimedOutExchangeStaysClosed

\* C20: every waitForResponse call that is still waiting has its handler
\* stored, whatever other calls for the same frame type were made or timed
\* out meanwhile, and a call resolved by a frame that was sent in time was
\* resolved by the reply to its own request.
C20_SameTypeWaitsKeepTheirHandlers ==
    \A w \in 1..Len(waits) :
        /\ waits[w].outcome = "pending" => responseCallbacks[waits[w].type] = w
        /\ (waits[w].outcome = "frame" /\ ~waits[w].late) => waits[w].value = w

----------------------------------------------------------------------------
(* Properties: responses that end an exchange (checked under SpecRegistry) *)

\* An entry of activeRequests, and with it a timer, belongs to exchange e.
HasEntry(e) == \E k \in DOMAIN activeRequests : activeRequests[k].ex = e

\* The last message that reached exchange e was of code class 4 or 5.
GotErrorResponse(e) ==
    exchanges[e].lastCode # <<>> /\ exchanges[e].lastCode[1] \in {4, 5}

\* C16: an exchange that a 4.xx or 5.xx response has reached is rejected,
\* once, with the error "CoAP error <class>.<detail>" of that response, no
\* registry entry and no timer is left for it, and from then on nothing is
\* transmitted for it.
C16_ErrorResponseRejects ==
    /\ [](\A e \in Exs :
            GotErrorResponse(e) =>
                /\ exchanges[e].outcome = "rejected"
                /\ exchanges[e].error =
                      "CoAP error " \o ToString(exchanges[e].lastCode[1])
                                    \o "." \o ToString(exchanges[e].lastCode[2])
                /\ exchanges[e].settleCalls = 1
                /\ ~HasEntry(e))
    /\ [][\A e \in Exs :
            GotErrorResponse(e) =>
                exchanges'[e].transmissions = exchanges[e].transmissions]_vars

\* A 4.04 has rejected an exchange that had been retransmitted before.
C16_Witness ==
    \E e \in Exs :
        /\ exchanges[e].lastCode = <<4, 4>>
        /\ exchanges[e].outcome = "rejected"
        /\ exchanges[e].transmissions > 1

\* C17: an exchange is resolved only by a response of code class 2, and an
\* exchange that a reset has reached is rejected with a Reset error.
C17_OnlyClass2Resolves ==
    \A e \in Exs :
        /\ exchanges[e].outcome = "resolved" =>
              (exchanges[e].lastCode # <<>> /\ exchanges[e].lastCode[1] = 2)
        /\ exchanges[e].lastType = TYPE_RESET =>
              (exchanges[e].outcome = "rejected" /\ exchanges[e].error = "Reset")

----------------------------------------------------------------------------
(* CoAP engine with timers that fire (SpecFair): an armed retransmission   *)
(* timer eventually expires; the peer sends at most MaxResponses messages. *)

SpecFair == Init /\ [][Next]_vars /\ WF_vars(Timeout)

\* C19: every submitted exchange eventually is resolved or rejected and has
\* no registry entry left, whatever the peer sends.
C19_EveryExchangeTerminates ==
    \A e \in 1..MaxExchanges :
        [](Len(exchanges) >= e =>
              <>(/\ Len(exchanges) >= e
                 /\ exchanges[e].outcome # "pending"
                 /\ ~HasEntry(e)))

----------------------------------------------------------------------------
(* Controller: connection (SpecConnect).  connect(), the data requests and *)
(* disconnect() of LAN966xController over its transport this.serial, whose *)
(* connect, write and disconnect either complete or fail, and beside it    *)
(* the WebSerialHandler of the application with the callbacks that         *)
(* VelocityDriveApp.setupWebSerial registers.  The device answers the ping *)
(* with a P frame whose payload is the byte 1 and the r-th data request    *)
(* with a C frame whose payload is the byte r + 1, which is the number of  *)
(* the waitForResponse call that awaits it.                                *)

MaxRequests == 2   \* data requests after connect

\* The transport has been opened by connect(), has not failed and has not
\* been closed.
TransportUp ==
    /\ connectPc \notin {"idle"}
    /\ connectError # "open"
    /\ ioError = "none"
    /\ ~closed

\* How a write on the transport may end: it completes or fails while the
\* transport is up, and fails once the transport is down.
WriteOutcomes == IF TransportUp THEN BOOLEAN ELSE {FALSE}

\* The continuation of connect() after `await this.waitForResponse('P', 2000)`
\* is ready to run; it runs before any other task of the event loop.
ConnectRunnable == connectPc = "waiting" /\ waits[1].outcome # "pending"

\* connect() up to `await this.serial.write(pingFrame)`: the transport is
\* opened and the ping frame handed to it, or opening fails and the catch
\* block runs.
Connect ==
    /\ connectPc = "idle"
    /\ \E opened \in BOOLEAN :
          IF opened
          THEN /\ connectPc' = "writing"
               /\ UNCHANGED <<isConnected, connectError>>
          ELSE /\ connectPc' = "failed"
               /\ connectError' = "open"
               /\ isConnected' = FALSE
    /\ UNCHANGED <<ioError, closed, requests, appVars, pureVars, mupVars, coapVars, ctlVars>>

\* The write of the ping frame settles: connect() goes on to
\* waitForResponse('P', 2000), or the write has failed and the catch block runs.
PingWritten ==
    /\ connectPc = "writing"
    /\ \E ok \in WriteOutcomes :
          IF ok
          THEN /\ BecomeController(waitForResponse(TheController, "P"))
               /\ connectPc' = "waiting"
               /\ UNCHANGED <<isConnected, connectError, ioError>>
          ELSE /\ connectPc' = "failed"
               /\ connectError' = "write"
               /\ ioError' = IF ioError = "none" /\ ~closed THEN "write" ELSE ioError
               /\ isConnected' = FALSE
               /\ UNCHANGED ctlVars
    /\ UNCHANGED <<closed, requests, appVars, pureVars, mupVars, coapVars>>

\* connect() after the wait for the ping reply has settled.
ConnectResumes ==
    /\ ConnectRunnable
    /\ IF waits[1].outcome = "frame"
       THEN /\ isConnected' = TRUE
            /\ connectPc' = "connected"
            /\ UNCHANGED connectError
       ELSE /\ isConnected' = FALSE
            /\ connectPc' = "failed"
            /\ connectError' = "no response"
    /\ UNCHANGED <<ioError, closed, requests, appVars, pureVars, mupVars, coapVars, ctlVars>>

\* A data request up to `await this.serial.write(frame)`.  getYangChecksum,
\* fetchData, patchData and postData have the same shape: write the request
\* frame, then waitForResponse('C', 5000), inside try/catch.
Request ==
    /\ ~ConnectRunnable
    /\ connectPc = "connected"
    /\ Len(requests) < MaxRequests
    /\ \E op \in {"fetchData", "patchData", "postData"} :
          requests' = Append(requests, [op |-> op, pc |-> "writing", wait |-> 0])
    /\ UNCHANGED <<isConnected, connectPc, connectError, ioError, closed,
                   appVars, pureVars, mupVars, coapVars, ctlVars>>

\* The oldest write of a data request settles: the request goes on to
\* waitForResponse('C', 5000), or the write has failed and the catch block
\* logs the error and returns.
RequestWritten ==
    /\ ~ConnectRunnable
    /\ \E r \in 1..Len(requests) :
          /\ requests[r].pc = "writing"
          /\ \A q \in 1..(r - 1) : requests[q].pc # "writing"
          /\ \E ok \in WriteOutcomes :
                IF ok
                THEN /\ BecomeController(waitForResponse(TheController, "C"))
                     /\ requests' = [requests EXCEPT ![r].pc = "waiting",
                                                     ![r].wait = Len(waits) + 1]
                     /\ UNCHANGED ioError
                ELSE /\ requests' = [requests EXCEPT ![r].pc = "failed"]
                     /\ ioError' = IF ioError = "none" /\ ~closed THEN "write" ELSE ioError
                     /\ UNCHANGED ctlVars
    /\ UNCHANGED <<isConnected, connectPc, connectError, closed,
                   appVars, pureVars, mupVars, coapVars>>

\* A read on the transport fails: the controller has no handler for it.
ReadFails ==
    /\ ~ConnectRunnable
    /\ TransportUp
    /\ ioError' = "read"
    /\ UNCHANGED <<isConnected, connectPc, connectError, closed, requests,
                   appVars, pureVars, mupVars, coapVars, ctlVars>>

\* The transport hands the device's answer to one frame to
\* handleIncomingData.  Unanswered: the frames the device has been sent and
\* has not answered yet, the ping is 1, the r-th data request r + 1.
DeviceReply ==
    /\ ~ConnectRunnable
    /\ TransportUp
    /\ LET Unanswered ==
               {x \in {1} \cup {r + 1 : r \in 1..Len(requests)} :
                   \A i \in 1..Len(received) : received[i].tag # x}
           ReplyTo(x) ==
               createFrame(IF x = 1 THEN MUP1_CB_PING ELSE MUP1_CB_COAP, <<x>>)
       IN \E x \in Unanswered :
          LET r == parseData(ParserNow, ReplyTo(x))
          IN  /\ state' = r.p.state
              /\ mup1Data' = r.p.mup1Data
              /\ mup1Type' = r.p.mup1Type
              /\ checksum' = r.p.checksum
              /\ frames' = frames \o r.frames
              /\ BecomeController(dispatchFrames(TheController, r.frames, FALSE))
    /\ UNCHANGED <<fType, fData, emitted, stream, fed, coapVars, restVars>>

\* The timeout of a waitForResponse call elapses.
ResponseTimeout ==
    /\ ~ConnectRunnable
    /\ WaitTimeout

\* disconnect(): the transport is closed, then isConnected is cleared.
Disconnect ==
    /\ ~ConnectRunnable
    /\ connectPc = "connected"
    /\ ~closed
    /\ closed' = TRUE
    /\ isConnected' = FALSE
    /\ UNCHANGED <<connectPc, connectError, ioError, requests,
                   appVars, pureVars, mupVars, coapVars, ctlVars>>

\* WebSerialHandler.connect() up to `await this.sendPing()`: the port is
\* opened, the read loop started and onConnect called, which the
\* application answers with updateConnectionStatus(true, 'serial'); or
\* opening fails and onError is called.
WebSerialConnect ==
    /\ webSerial.pc = "idle"
    /\ \E opened \in BOOLEAN :
          IF opened
          THEN /\ webSerial' = [webSerial EXCEPT !.pc = "pinging", !.open = TRUE,
                                                 !.keepReading = TRUE, !.reading = TRUE]
               /\ appConnected' = TRUE
          ELSE /\ webSerial' = [webSerial EXCEPT !.pc = "failed"]
               /\ UNCHANGED appConnected
    /\ UNCHANGED <<connVars, pureVars, mupVars, coapVars, ctlVars>>

\* The write of sendPing settles: connect() returns true, or onError is
\* called and the error thrown on.
WebSerialPingWritten ==
    /\ webSerial.pc = "pinging"
    /\ \E ok \in (IF webSerial.open THEN BOOLEAN ELSE {FALSE}) :
          webSerial' = [webSerial EXCEPT !.pc = IF ok THEN "connected" ELSE "failed"]
    /\ UNCHANGED <<appConnected, connVars, pureVars, mupVars, coapVars, ctlVars>>

\* readLoop hands the device's PONG to onData; handleSerialData logs it.
WebSerialPong ==
    /\ webSerial.pc = "connected"
    /\ webSerial.reading
    /\ ~webSerial.pong
    /\ webSerial' = [webSerial EXCEPT !.pong = TRUE]
    /\ UNCHANGED <<appConnected, connVars, pureVars, mupVars, coapVars, ctlVars>>

\* A read fails in readLoop: onError is called and the loop is left.
WebSerialReadError ==
    /\ webSerial.reading
    /\ webSerial' = [webSerial EXCEPT !.reading = FALSE]
    /\ UNCHANGED <<appConnected, connVars, pureVars, mupVars, coapVars, ctlVars>>

\* WebSerialHandler.disconnect(): the port is closed and onDisconnect
\* called, which the application answers with updateConnectionStatus(false).
WebSerialDisconnect ==
    /\ webSerial.open
    /\ webSerial' = [webSerial EXCEPT !.open = FALSE, !.keepReading = FALSE,
                                      !.reading = FALSE]
    /\ appConnected' = FALSE
    /\ UNCHANGED <<connVars, pureVars, mupVars, coapVars, ctlVars>>

InitConnect ==
    /\ fType = MUP1_CB_PING
    /\ fData = <<>>
    /\ InitMUP1Vars
    /\ messageIdCounter = 0
    /\ InitCoAPVars
    /\ InitCtlVars
    /\ InitRest

SpecConnect ==
    InitConnect
    /\ [][Connect \/ PingWritten \/ ConnectResumes \/ Request
          \/ RequestWritten \/ ReadFails \/ DeviceReply
          \/ ResponseTimeout \/ Disconnect \/ WebSerialConnect
          \/ WebSerialPingWritten \/ WebSerialPong
          \/ WebSerialReadError \/ WebSerialDisconnect]_vars

----------------------------------------------------------------------------
(* Properties: connection (checked under SpecConnect)                      *)

\* The device's P reply has been dispatched by handleIncomingData after the
\* ping frame was handed to the transport and before the 2 s of the wait
\* for it had elapsed.
PongInTime == \E i \in 1..Len(received) : received[i].tag = 1 /\ ~received[i].late

\* C21: when the device's P reply is received after the ping frame has been
\* written and within the 2 s, in any order of the write completing, the
\* reply being dispatched and waitForResponse storing its handler, the
\* reply is not lost: the wait for it does not time out and connect does
\* not fail for want of a response.
C21_PingReplyNeverLost ==
    PongInTime =>
        /\ connectError # "no response"
        /\ \A w \in 1..Len(waits) : waits[w].type = "P" => waits[w].outcome # "null"

\* C22: the connection becomes Connected only after a ping has been sent
\* and a matching P reply received: isConnected is true only when the wait
\* for the ping reply was resolved by a P frame, the connected status of
\* the application is true only when the device's reply to the ping has
\* been received, and when 2 s pass without a reply connect fails and
\* isConnected is false.
C22_ConnectedOnlyAfterPing ==
    /\ isConnected =>
          (Len(waits) >= 1 /\ waits[1].type = "P" /\ waits[1].outcome = "frame")
    /\ appConnected => webSerial.pong
    /\ (Len(waits) >= 1 /\ waits[1].outcome = "null" /\ ~ConnectRunnable) =>
          (connectPc = "failed" /\ connectError = "no response" /\ ~isConnected)

\* C23: any transport error moves the connection to Disconnected: once a
\* write or a read on the transport has failed, isConnected is false.
C23_TransportErrorDisconnects == ioError # "none" => ~isConnected

\* C24: after disconnect has completed no waitForResponse call is still
\* pending and no response handler is still stored.
C24_DisconnectFailsPending ==
    closed =>
        /\ \A w \in 1..Len(waits) : waits[w].outcome # "pending"
        /\ responseCallbacks # Undefined =>
              \A type \in CallbackTypes : responseCallbacks[type] = 0

----------------------------------------------------------------------------
(* Properties: cancellation (checked under SpecRegistry)                   *)

\* A step of the engine that cancels exchange e: the entry of e leaves the
\* registry and e is neither resolved nor rejected with a response error or
\* a timeout.
CancelOf(e) ==
    /\ NextRegistry
    /\ ~HasEntry(e)'
    /\ \/ exchanges'[e].outcome = "pending"
       \/ exchanges'[e].outcome = "rejected" /\ exchanges'[e].error = "cancelled"

\* C25: a caller can cancel a pending exchange: while an exchange is
\* registered and pending, a step that removes it from the registry
\* without resolving it or failing it with an error or a timeout is possible.
C25_PendingExchangeCanBeCancelled ==
    \A e \in Exs :
        (HasEntry(e) /\ exchanges[e].outcome = "pending") => ENABLED CancelOf(e)

----------------------------------------------------------------------------
(* CoapClient (src/js/coap-client.js): createMessage and parseMessage on   *)
(* bytes, and the option list that AdvancedCoAPClient.createRequest builds *)
(* (SpecClient).  Offsets count from 0 as in the code.                     *)

MaxMessages == 3   \* createMessage calls, and createRequest calls, in a row

VERSION == 1
PAYLOAD_MARKER == 255

\* this.OPTION of AdvancedCoAPClient, the numbers createRequest uses.
OPTION == [URI_PATH |-> 11, CONTENT_FORMAT |-> 12, URI_QUERY |-> 15,
           ACCEPT |-> 17, BLOCK2 |-> 23, BLOCK1 |-> 27]

\* What an element becomes when the array is turned into a Uint8Array.
ToUint8(x) == x % 256

RECURSIVE insertOption(_, _)
\* Places o behind every option of sorted whose number is not larger.
insertOption(sorted, o) ==
    IF sorted = <<>> THEN <<o>>
    ELSE IF Head(sorted).number <= o.number
    THEN <<Head(sorted)>> \o insertOption(Tail(sorted), o)
    ELSE <<o>> \o sorted

\* The options left in the order the caller gave them.
sortOptionsSkipped(opts) == opts

RECURSIVE sortOptions(_)
\* options.sort((a, b) => a.number - b.number): Array.prototype.sort is stable.
sortOptions(opts) ==
    IF opts = <<>> THEN <<>>
    ELSE insertOption(sortOptions(SubSeq(opts, 1, Len(opts) - 1)), opts[Len(opts)])

\* The delta counted from the previous option, option.number - previousOption.
optionDeltas(opts) ==
    [i \in 1..Len(opts) |-> opts[i].number - (IF i = 1 THEN 0 ELSE opts[i - 1].number)]

\* The nibble for a delta or a length.
optionNibble(n) == IF n < 13 THEN n ELSE IF n < 269 THEN 13 ELSE 14

\* The one-byte form without its offset of 13.
extendedDeltaUnbiased(delta) ==
    IF delta < 13 THEN <<>>
    ELSE IF delta < 269 THEN <<delta>>
    ELSE <<(delta - 269) \div 256, (delta - 269) % 256>>

\* extendedDelta of createMessage.
extendedDelta(delta) ==
    IF delta < 13 THEN <<>>
    ELSE IF delta < 269 THEN <<delta - 13>>
    ELSE <<(delta - 269) \div 256, (delta - 269) % 256>>

RECURSIVE clientOptions(_, _)
\* The loop over the sorted options.  One option as createMessage pushes
\* it: optionByte, the extended delta, the extended length, the value.
clientOptions(opts, previousOption) ==
    IF opts = <<>> THEN <<>>
    ELSE LET delta == Head(opts).number - previousOption
             value == Head(opts).value
             length == Len(value)
             extendedLength ==
                 IF length < 13 THEN <<>>
                 ELSE IF length < 269 THEN <<length - 13>>
                 ELSE <<(length - 269) \div 256, (length - 269) % 256>>
             head == <<optionNibble(delta) * 16 + optionNibble(length)>>
                     \o extendedDelta(delta) \o extendedLength
         IN  [i \in 1..Len(head) |-> ToUint8(head[i])] \o value
             \o clientOptions(Tail(opts), Head(opts).number)

\* this.messageId = (this.messageId + 1) & 0xFFFF, without the mask.
nextClientMessageIdUnmasked(id) == id + 1

\* this.messageId = (this.messageId + 1) & 0xFFFF
nextClientMessageId(id) == (id + 1) % MessageIdModulus

\* createMessage(type, code, token, options, payload) with a token given;
\* a = the arguments, id = this.messageId before the call.  The result
\* carries the new this.messageId and the options as they were inOrder.
createMessage(id, a) ==
    LET newId   == nextClientMessageId(id)
        inOrder == sortOptions(a.options)
    IN  [messageId |-> newId,
         options   |-> inOrder,
         deltas    |-> optionDeltas(inOrder),
         bytes     |-> <<ToUint8(VERSION * 64 + a.type * 16 + Len(a.token)), a.code,
                         (newId \div 256) % 256, newId % 256>>
                       \o a.token
                       \o clientOptions(inOrder, 0)
                       \o (IF a.payload # Null /\ Len(a.payload) > 0
                           THEN <<PAYLOAD_MARKER>> \o a.payload ELSE <<>>)]

\* data[offset]
At(data, offset) == data[offset + 1]

\* data.slice(start, end)
Slice(data, start, end) ==
    SubSeq(data, start + 1, IF end < Len(data) THEN end ELSE Len(data))

RECURSIVE parseOptions(_, _, _, _)
\* The while loop of parseMessage; it is left at a payload marker, at the
\* end of the data and at a nibble of 15.  malformed: a byte was read
\* behind the end of the data.  readExtended: what is read behind an option
\* byte for a delta or length nibble n at offset at, the value and the
\* offset after it; short: the bytes are not there.
parseOptions(data, offset, previousOption, opts) ==
    IF ~(offset < Len(data) /\ At(data, offset) # PAYLOAD_MARKER)
    THEN [options |-> opts, offset |-> offset, malformed |-> FALSE]
    ELSE LET readExtended(at, n) ==
                 IF n = 13
                 THEN IF at < Len(data)
                      THEN [value |-> At(data, at) + 13, offset |-> at + 1, short |-> FALSE]
                      ELSE [value |-> 0, offset |-> at + 1, short |-> TRUE]
                 ELSE IF n = 14
                 THEN IF at + 1 < Len(data)
                      THEN [value  |-> At(data, at) * 256 + At(data, at + 1) + 269,
                            offset |-> at + 2, short |-> FALSE]
                      ELSE [value |-> 0, offset |-> at + 2, short |-> TRUE]
                 ELSE [value |-> n, offset |-> at, short |-> FALSE]
             optionByte == At(data, offset)
             d == readExtended(offset + 1, (optionByte \div 16) % 16)
             l == readExtended(d.offset, optionByte % 16)
         IN  IF (optionByte \div 16) % 16 = 15
             THEN [options |-> opts, offset |-> offset + 1, malformed |-> FALSE]
             ELSE IF optionByte % 16 = 15
             THEN [options |-> opts, offset |-> d.offset, malformed |-> d.short]
             ELSE IF d.short \/ l.short
             THEN [options |-> opts, offset |-> l.offset, malformed |-> TRUE]
             ELSE parseOptions(data, l.offset + l.value, previousOption + d.value,
                               Append(opts, [number |-> previousOption + d.value,
                                             value  |-> Slice(data, l.offset,
                                                              l.offset + l.value)]))

\* parseMessage(data) for data of at least the four header bytes.
parseMessage(data) ==
    LET tokenLength == At(data, 0) % 16
        o == parseOptions(data, 4 + tokenLength, 0, <<>>)
    IN  [version     |-> (At(data, 0) \div 64) % 4,
         type        |-> (At(data, 0) \div 16) % 4,
         tokenLength |-> tokenLength,
         code        |-> At(data, 1),
         messageId   |-> At(data, 2) * 256 + At(data, 3),
         token       |-> IF tokenLength > 0 THEN Slice(data, 4, 4 + tokenLength) ELSE <<>>,
         options     |-> o.options,
         malformed   |-> o.malformed,
         payload     |-> IF o.offset < Len(data) /\ At(data, o.offset) = PAYLOAD_MARKER
                         THEN Slice(data, o.offset + 1, Len(data)) ELSE Null,
         codeClass   |-> (At(data, 1) \div 32) % 8,
         codeDetail  |-> At(data, 1) % 32]

RECURSIVE splitPath(_, _)
\* path.split('/').filter(p => p.length > 0); part: the part being read.
splitPath(path, part) ==
    IF path = <<>> THEN (IF part = <<>> THEN <<>> ELSE <<part>>)
    ELSE IF Head(path) = 47
    THEN (IF part = <<>> THEN <<>> ELSE <<part>>) \o splitPath(Tail(path), <<>>)
    ELSE splitPath(Tail(path), Append(part, Head(path)))

\* An option of the request that is absent.
Absent == <<>>

\* The options createRequest adds, in the order in which it adds them;
\* r = [path, contentFormat, query, accept, block2, block1], an absent
\* option being Absent and a present one a one-element sequence.
requestOptionList(r) ==
    LET parts == splitPath(r.path, <<>>)
        \* encodeUint(value) for value below 65536
        encodeUint(value) ==
            IF value = 0 THEN <<>>
            ELSE IF value < 256 THEN <<value>>
            ELSE <<(value \div 256) % 256, value % 256>>
    IN  [i \in 1..Len(parts) |-> [number |-> OPTION.URI_PATH, value |-> parts[i]]]
        \o (IF r.contentFormat = Absent THEN <<>>
            ELSE <<[number |-> OPTION.CONTENT_FORMAT, value |-> encodeUint(r.contentFormat[1])]>>)
        \o (IF r.query = Absent THEN <<>>
            ELSE [i \in 1..Len(r.query[1]) |->
                     [number |-> OPTION.URI_QUERY, value |-> r.query[1][i]]])
        \o (IF r.accept = Absent THEN <<>>
            ELSE <<[number |-> OPTION.ACCEPT, value |-> encodeUint(r.accept[1])]>>)
        \o (IF r.block2 = Absent THEN <<>>
            ELSE <<[number |-> OPTION.BLOCK2,
                    value  |-> encodeBlockOption(r.block2[1].num, r.block2[1].more,
                                                 r.block2[1].size)]>>)
        \o (IF r.block1 = Absent THEN <<>>
            ELSE <<[number |-> OPTION.BLOCK1,
                    value  |-> encodeBlockOption(r.block1[1].num, r.block1[1].more,
                                                 r.block1[1].size)]>>)

RECURSIVE requestOptionBytes(_, _)
\* optionsData: each option encoded with its delta from lastOption by
\* encodeOption(number, value), which is given the delta as its number.
requestOptionBytes(opts, lastOption) ==
    IF opts = <<>> THEN <<>>
    ELSE LET delta == Head(opts).number - lastOption
             value == Head(opts).value
             deltaExtended ==
                 IF delta < 13 THEN <<>>
                 ELSE IF delta < 269 THEN <<delta - 13>>
                 ELSE <<((delta - 269) \div 256) % 256, (delta - 269) % 256>>
             lengthExtended ==
                 IF Len(value) < 13 THEN <<>>
                 ELSE IF Len(value) < 269 THEN <<Len(value) - 13>>
                 ELSE <<((Len(value) - 269) \div 256) % 256, (Len(value) - 269) % 256>>
         IN  <<ToUint8(optionNibble(delta) * 16 + optionNibble(Len(value)))>>
             \o deltaExtended \o lengthExtended \o value
             \o requestOptionBytes(Tail(opts), Head(opts).number)

\* createRequest(GET, path, null, options): counter = this.messageIdCounter
\* before the call.  The result carries the new counter and the options as
\* they were inOrder.
createRequestBytes(counter, r) ==
    LET id      == getNextMessageId(counter)
        inOrder == requestOptionList(r)
    IN  [messageId |-> id,
         options   |-> inOrder,
         deltas    |-> optionDeltas(inOrder),
         bytes     |-> <<ToUint8(VERSION * 64 + TYPE_CONFIRMABLE * 16), 1,
                         (id \div 256) % 256, id % 256>>
                       \o requestOptionBytes(inOrder, 0)]

\* Option values: the text "a", the text "b", a value of 13 bytes and one
\* of 270 bytes, which need the extended length forms.
OptionValues == [a |-> <<97>>, b |-> <<98>>, none |-> <<>>,
                 long13 |-> [i \in 1..13 |-> 255],
                 long270 |-> [i \in 1..270 |-> i % 256]]

\* The arguments createMessage is given, and the option lists among them.
ClientArgs ==
  LET OptionLists ==
    {<<>>,
     <<[number |-> 11, value |-> OptionValues.a]>>,
     <<[number |-> 11, value |-> OptionValues.b], [number |-> 11, value |-> OptionValues.a]>>,
     <<[number |-> 15, value |-> OptionValues.b], [number |-> 11, value |-> OptionValues.b],
       [number |-> 11, value |-> OptionValues.a]>>,
     <<[number |-> 60, value |-> OptionValues.a], [number |-> 12, value |-> OptionValues.none],
       [number |-> 35, value |-> OptionValues.long13]>>,
     <<[number |-> 300, value |-> OptionValues.long270], [number |-> 0, value |-> OptionValues.a],
       [number |-> 300, value |-> OptionValues.b]>>,
     <<[number |-> 65535, value |-> OptionValues.a], [number |-> 13, value |-> OptionValues.b]>>}
  IN
    [type    : 0..3,
     code    : {132},
     token   : {<<>>, [i \in 1..8 |-> 247 + i]},
     options : OptionLists,
     payload : {Null, <<>>, <<255, 0>>}]

\* The arguments createRequest is given: "", "/a/bb" or "a//b/" as the path;
\* no block option, Block2 or Block1.
RequestArgs ==
  LET RequestBlocks ==
    {<<Absent, Absent>>,
     <<<<[num |-> 1, more |-> FALSE, size |-> DEFAULT_BLOCK_SIZE]>>, Absent>>,
     <<Absent, <<[num |-> 0, more |-> TRUE, size |-> DEFAULT_BLOCK_SIZE]>>>>}
  IN
    {[path |-> p, contentFormat |-> c, query |-> q, accept |-> a,
      block2 |-> k[1], block1 |-> k[2], calls |-> 0] :
        p \in {<<>>, <<47, 97, 47, 98, 98>>, <<97, 47, 47, 98, 47>>},
        c \in {Absent, <<60>>},
        q \in {Absent, <<<<OptionValues.b, OptionValues.a>>>>},
        a \in {Absent, <<141>>},
        k \in RequestBlocks}

InitClient ==
    /\ clientMessageId \in InitialCounters
    /\ clientArgs \in ClientArgs
    /\ clientMessage = <<>>
    /\ clientBuilt = 0
    /\ requestArgs \in RequestArgs
    /\ requestBuilt = <<>>
    /\ messageIdCounter = clientMessageId
    /\ InitCoAPVars
    /\ fType = MUP1_CB_PING
    /\ fData = <<>>
    /\ InitMUP1Vars
    /\ InitCtlVars
    /\ InitConnVars
    /\ cborValue = <<>>
    /\ cborBytes = <<>>
    /\ cborDecoded = <<>>
    /\ cborAgain = <<>>
    /\ cborPc = "idle"

\* A createMessage call.
CreateMessage ==
    /\ clientBuilt < MaxMessages
    /\ LET m == createMessage(clientMessageId, clientArgs)
       IN  /\ clientMessage' = <<m>>
           /\ clientMessageId' = m.messageId
    /\ clientBuilt' = clientBuilt + 1
    /\ UNCHANGED <<clientArgs, requestArgs, requestBuilt, cborVars, lateVars, connVars, appVars,
                   mupVars, coapVars, ctlVars>>

\* A createRequest call.
CreateRequest ==
    /\ requestArgs.calls < MaxMessages
    /\ LET m == createRequestBytes(messageIdCounter, requestArgs)
       IN  /\ requestBuilt' = <<m>>
           /\ messageIdCounter' = m.messageId
    /\ requestArgs' = [requestArgs EXCEPT !.calls = @ + 1]
    /\ UNCHANGED <<clientMessageId, clientArgs, clientMessage, clientBuilt, cborVars, lateVars,
                   connVars, appVars, mupVars, activeRequests, exchanges, budget, ctlVars>>

SpecClient == InitClient /\ [][CreateMessage \/ CreateRequest]_vars

----------------------------------------------------------------------------
(* Properties: CoapClient and the request builder (checked under           *)
(* SpecClient)                                                             *)

\* The option numbers of opts never decrease.
Ascending(opts) == \A i \in 1..(Len(opts) - 1) : opts[i].number <= opts[i + 1].number

\* The options of one number, in the order in which opts has them.
WithNumber(opts, n) == SelectSeq(opts, LAMBDA o : o.number = n)

\* out has the options of given, those of equal number in given's order.
KeepsGivenOrder(out, given) ==
    /\ Len(out) = Len(given)
    /\ \A i \in 1..Len(given) :
          WithNumber(out, given[i].number) = WithNumber(given, given[i].number)

\* The options the caller of createRequest gave: the parts of the path in
\* the path's order and the queries in the array's order.
GivenToRequest(r) ==
    /\ [i \in 1..Len(WithNumber(requestBuilt[1].options, OPTION.URI_PATH)) |->
           WithNumber(requestBuilt[1].options, OPTION.URI_PATH)[i].value]
       = splitPath(r.path, <<>>)
    /\ [i \in 1..Len(WithNumber(requestBuilt[1].options, OPTION.URI_QUERY)) |->
           WithNumber(requestBuilt[1].options, OPTION.URI_QUERY)[i].value]
       = (IF r.query = Absent THEN <<>> ELSE r.query[1])

\* C26: in every message built by CoapClient.createMessage and by
\* AdvancedCoAPClient.createRequest the options are in non-decreasing
\* option-number order, every encoded delta is at least 0, and options of
\* the same number keep the order in which they were given.
C26_OptionsAscendingAndStable ==
    /\ clientMessage # <<>> =>
          /\ \A i \in 1..Len(clientMessage[1].deltas) : clientMessage[1].deltas[i] >= 0
          /\ Ascending(clientMessage[1].options)
          /\ Ascending(parseMessage(clientMessage[1].bytes).options)
          /\ KeepsGivenOrder(clientMessage[1].options, clientArgs.options)
    /\ requestBuilt # <<>> =>
          /\ \A i \in 1..Len(requestBuilt[1].deltas) : requestBuilt[1].deltas[i] >= 0
          /\ Ascending(requestBuilt[1].options)
          /\ Ascending(parseMessage(requestBuilt[1].bytes).options)
          /\ GivenToRequest(requestArgs)

C26_Witness ==
    /\ clientMessage # <<>>
    /\ clientArgs.options = <<[number |-> 15, value |-> OptionValues.b],
                              [number |-> 11, value |-> OptionValues.b],
                              [number |-> 11, value |-> OptionValues.a]>>
    /\ clientMessage[1].options[1].value = OptionValues.b
    /\ clientMessage[1].options[3].number = 15
    /\ requestBuilt # <<>>
    /\ Len(requestBuilt[1].options) = 6
    /\ requestArgs.block2 # Absent

\* The bytes of a payload; no payload and an empty payload are both empty.
BytesOfPayload(p) == IF p = Null THEN <<>> ELSE p

\* C27: for every message built by createMessage, parseMessage of the
\* emitted bytes returns the same version, type, code, message ID, token
\* and payload, and the same options in ascending number order, those of
\* equal number in their original order.
C27_ParseInvertsCreate ==
    clientMessage # <<>> =>
        LET parsed == parseMessage(clientMessage[1].bytes)
        IN  /\ ~parsed.malformed
            /\ parsed.version = VERSION
            /\ parsed.type = clientArgs.type
            /\ parsed.code = clientArgs.code
            /\ parsed.messageId = clientMessageId
            /\ parsed.tokenLength = Len(clientArgs.token)
            /\ parsed.token = clientArgs.token
            /\ BytesOfPayload(parsed.payload) = BytesOfPayload(clientArgs.payload)
            /\ Ascending(parsed.options)
            /\ KeepsGivenOrder(parsed.options, clientArgs.options)

C27_Witness ==
    /\ clientMessage # <<>>
    /\ clientArgs.type = 3
    /\ Len(clientArgs.token) = 8
    /\ clientArgs.payload = <<255, 0>>
    /\ Len(clientArgs.options) = 3
    /\ clientArgs.options[1].number = 300
    /\ parseMessage(clientMessage[1].bytes).options[3].value = OptionValues.b
    /\ parseMessage(clientMessage[1].bytes).payload = <<255, 0>>

\* C28: every message ID assigned is in 0..65535 and follows the previous
\* one by 1, with 0 after 65535, for CoapClient.createMessage, whose
\* message carries the ID in its third and fourth byte, and for
\* getNextMessageId of AdvancedCoAPClient.
C28_MessageIdsCountUp ==
    /\ [](/\ clientMessageId \in 0..65535
          /\ messageIdCounter \in 0..65535
          /\ clientMessage # <<>> =>
                clientMessage[1].bytes[3] * 256 + clientMessage[1].bytes[4] = clientMessageId
          /\ requestBuilt # <<>> =>
                requestBuilt[1].bytes[3] * 256 + requestBuilt[1].bytes[4] = messageIdCounter)
    /\ [][/\ clientBuilt' # clientBuilt =>
                clientMessageId' = IF clientMessageId = 65535 THEN 0 ELSE clientMessageId + 1
          /\ requestArgs' # requestArgs =>
                messageIdCounter' = IF messageIdCounter = 65535 THEN 0
                                    ELSE messageIdCounter + 1]_vars

C28_Witness ==
    /\ clientBuilt = MaxMessages
    /\ clientMessageId = 0
    /\ requestArgs.calls = MaxMessages
    /\ messageIdCounter = 0

----------------------------------------------------------------------------
(* CBOR codec (src/unnamed/part_000, CBORYANGCodec): encode and decode of  *)
(* integers, simple values, text strings and maps with SID substitution    *)
(* (SpecCBOR).  A JavaScript number is kept as a sign and four limbs of 16 *)
(* bits, most significant first, so that values up to 2^53 are exact; a    *)
(* string is the sequence of its character codes (ASCII); an object is the *)
(* sequence of its properties in insertion order.  Every value is a record *)
(* of the same shape.  Byte strings, arrays and floats are not among the   *)
(* values explored.                                                        *)

MaxKeys == 3   \* properties of an encoded object

\* this.MAJOR_TYPE
MAJOR_TYPE == [UNSIGNED_INT |-> 0, NEGATIVE_INT |-> 1, BYTE_STRING |-> 2,
               TEXT_STRING |-> 3, ARRAY |-> 4, MAP |-> 5, TAG |-> 6, SIMPLE |-> 7]

\* this.SIMPLE
SIMPLE == [FALSE_ |-> 20, TRUE_ |-> 21, NULL |-> 22, UNDEFINED |-> 23]

\* this.TAG.YANG_SID
YANG_SID == 256

\* this.KNOWN_SIDS, in the order of the object literal.
KNOWN_SIDS ==
    <<
     \* '/ietf-interfaces:interfaces'
     [sid |-> 1000,
      path |-> <<47, 105, 101, 116, 102, 45, 105, 110, 116, 101, 114, 102, 97,
             99, 101, 115, 58, 105, 110, 116, 101, 114, 102, 97,
             99, 101, 115>>],
     \* '/ietf-interfaces:interfaces/interface'
     [sid |-> 1001,
      path |-> <<47, 105, 101, 116, 102, 45, 105, 110, 116, 101, 114, 102, 97,
             99, 101, 115, 58, 105, 110, 116, 101, 114, 102, 97,
             99, 101, 115, 47, 105, 110, 116, 101, 114, 102, 97,
             99, 101>>],
     \* '/ietf-interfaces:interfaces/interface/name'
     [sid |-> 1002,
      path |-> <<47, 105, 101, 116, 102, 45, 105, 110, 116, 101, 114, 102, 97,
             99, 101, 115, 58, 105, 110, 116, 101, 114, 102, 97,
             99, 101, 115, 47, 105, 110, 116, 101, 114, 102, 97,
             99, 101, 47, 110, 97, 109, 101>>],
     \* '/ietf-interfaces:interfaces/interface/type'
     [sid |-> 1003,
      path |-> <<47, 105, 101, 116, 102, 45, 105, 110, 116, 101, 114, 102, 97,
             99, 101, 115, 58, 105, 110, 116, 101, 114, 102, 97,
             99, 101, 115, 47, 105, 110, 116, 101, 114, 102, 97,
             99, 101, 47, 116, 121, 112, 101>>],
     \* '/ietf-interfaces:interfaces/interface/enabled'
     [sid |-> 1004,
      path |-> <<47, 105, 101, 116, 102, 45, 105, 110, 116, 101, 114, 102, 97,
             99, 101, 115, 58, 105, 110, 116, 101, 114, 102, 97,
             99, 101, 115, 47, 105, 110, 116, 101, 114, 102, 97,
             99, 101, 47, 101, 110, 97, 98, 108, 101, 100>>],
     \* '/ieee802-dot1q-bridge:bridges'
     [sid |-> 2000,
      path |-> <<47, 105, 101, 101, 101, 56, 48, 50, 45, 100, 111, 116, 49, 113,
             45, 98, 114, 105, 100, 103, 101, 58, 98, 114, 105,
             100, 103, 101, 115>>],
     \* '/ieee802-dot1q-bridge:bridges/bridge'
     [sid |-> 2001,
      path |-> <<47, 105, 101, 101, 101, 56, 48, 50, 45, 100, 111, 116, 49, 113,
             45, 98, 114, 105, 100, 103, 101, 58, 98, 114, 105,
             100, 103, 101, 115, 47, 98, 114, 105, 100, 103, 101>>],
     \* '/ieee802-dot1q-bridge:bridges/bridge/name'
     [sid |-> 2002,
      path |-> <<47, 105, 101, 101, 101, 56, 48, 50, 45, 100, 111, 116, 49, 113,
             45, 98, 114, 105, 100, 103, 101, 58, 98, 114, 105,
             100, 103, 101, 115, 47, 98, 114, 105, 100, 103, 101,
             47, 110, 97, 109, 101>>],
     \* '/ieee802-dot1q-bridge:bridges/bridge/ports'
     [sid |-> 2003,
      path |-> <<47, 105, 101, 101, 101, 56, 48, 50, 45, 100, 111, 116, 49, 113,
             45, 98, 114, 105, 100, 103, 101, 58, 98, 114, 105,
             100, 103, 101, 115, 47, 98, 114, 105, 100, 103, 101,
             47, 112, 111, 114, 116, 115>>],
     \* '/ieee1588-ptp:ptp'
     [sid |-> 3000,
      path |-> <<47, 105, 101, 101, 101, 49, 53, 56, 56, 45, 112, 116, 112, 58,
             112, 116, 112>>],
     \* '/ieee1588-ptp:ptp/instances'
     [sid |-> 3001,
      path |-> <<47, 105, 101, 101, 101, 49, 53, 56, 56, 45, 112, 116, 112, 58,
             112, 116, 112, 47, 105, 110, 115, 116, 97, 110, 99,
             101, 115>>],
     \* '/ieee1588-ptp:ptp/instances/instance'
     [sid |-> 3002,
      path |-> <<47, 105, 101, 101, 101, 49, 53, 56, 56, 45, 112, 116, 112, 58,
             112, 116, 112, 47, 105, 110, 115, 116, 97, 110, 99,
             101, 115, 47, 105, 110, 115, 116, 97, 110, 99, 101>>],
     \* '/ieee1588-ptp:ptp/instances/instance/instance-index'
     [sid |-> 3003,
      path |-> <<47, 105, 101, 101, 101, 49, 53, 56, 56, 45, 112, 116, 112, 58,
             112, 116, 112, 47, 105, 110, 115, 116, 97, 110, 99,
             101, 115, 47, 105, 110, 115, 116, 97, 110, 99, 101,
             47, 105, 110, 115, 116, 97, 110, 99, 101, 45, 105,
             110, 100, 101, 120>>],
     \* '/mchp-velocitysp-port:eth-port'
     [sid |-> 4000,
      path |-> <<47, 109, 99, 104, 112, 45, 118, 101, 108, 111, 99, 105, 116,
             121, 115, 112, 45, 112, 111, 114, 116, 58, 101, 116,
             104, 45, 112, 111, 114, 116>>],
     \* '/mchp-velocitysp-port:eth-qos'
     [sid |-> 4001,
      path |-> <<47, 109, 99, 104, 112, 45, 118, 101, 108, 111, 99, 105, 116,
             121, 115, 112, 45, 112, 111, 114, 116, 58, 101, 116,
             104, 45, 113, 111, 115>>],
     \* '/mchp-velocitysp-ptp:automotive'
     [sid |-> 4002,
      path |-> <<47, 109, 99, 104, 112, 45, 118, 101, 108, 111, 99, 105, 116,
             121, 115, 112, 45, 112, 116, 112, 58, 97, 117, 116,
             111, 109, 111, 116, 105, 118, 101>>],
     \* '/mchp-velocitysp-system:save-config'
     [sid |-> 4003,
      path |-> <<47, 109, 99, 104, 112, 45, 118, 101, 108, 111, 99, 105, 116,
             121, 115, 112, 45, 115, 121, 115, 116, 101, 109, 58,
             115, 97, 118, 101, 45, 99, 111, 110, 102, 105, 103>>],
     \* '/ietf-constrained-yang-library:yang-library'
     [sid |-> 29300,
      path |-> <<47, 105, 101, 116, 102, 45, 99, 111, 110, 115, 116, 114, 97,
             105, 110, 101, 100, 45, 121, 97, 110, 103, 45, 108,
             105, 98, 114, 97, 114, 121, 58, 121, 97, 110, 103,
             45, 108, 105, 98, 114, 97, 114, 121>>],
     \* '/ietf-constrained-yang-library:yang-library/checksum'
     [sid |-> 29304,
      path |-> <<47, 105, 101, 116, 102, 45, 99, 111, 110, 115, 116, 114, 97,
             105, 110, 101, 100, 45, 121, 97, 110, 103, 45, 108,
             105, 98, 114, 97, 114, 121, 58, 121, 97, 110, 103,
             45, 108, 105, 98, 114, 97, 114, 121, 47, 99, 104,
             101, 99, 107, 115, 117, 109>>]
    >>

Value(t, neg, w, text, entries) ==
    [t |-> t, neg |-> neg, w |-> w, text |-> text, entries |-> entries]

\* The limbs of a number below 2^31.
Small(n) == <<0, 0, n \div 65536, n % 65536>>

IntValue(neg, w)  == Value("int", neg, w, <<>>, <<>>)
MapValue(entries) == Value("map", FALSE, Small(0), <<>>, entries)
\* The call has thrown.
ErrorValue == Value("error", FALSE, Small(0), <<>>, <<>>)

\* w - 1 for w > 0, and w + 1.
Dec(w) ==
    IF w[4] > 0 THEN <<w[1], w[2], w[3], w[4] - 1>>
    ELSE IF w[3] > 0 THEN <<w[1], w[2], w[3] - 1, 65535>>
    ELSE IF w[2] > 0 THEN <<w[1], w[2] - 1, 65535, 65535>>
    ELSE <<w[1] - 1, 65535, 65535, 65535>>

Inc(w) ==
    IF w[4] < 65535 THEN <<w[1], w[2], w[3], w[4] + 1>>
    ELSE IF w[3] < 65535 THEN <<w[1], w[2], w[3] + 1, 0>>
    ELSE IF w[2] < 65535 THEN <<w[1], w[2] + 1, 0, 0>>
    ELSE <<w[1] + 1, 0, 0, 0>>

\* value < 4294967296
Below32(w) == w[1] = 0 /\ w[2] = 0

\* The head of an item: the bytes encodeUnsignedInt pushes for w, with a
\* major type in the first byte as encodeNegativeInt, encodeString and
\* encodeMap push them.
encodeHead(majorType, w) ==
    LET \* value < 65536
        Below16 == Below32(w) /\ w[3] = 0
        \* (x >> 8) & 0xFF, x & 0xFF of a limb
        Bytes2(limb) == <<limb \div 256, limb % 256>>
    IN  IF Below16 /\ w[4] < 24 THEN <<majorType + w[4]>>
        ELSE IF Below16 /\ w[4] < 256 THEN <<majorType + 24, w[4]>>
        ELSE IF Below16 THEN <<majorType + 25>> \o Bytes2(w[4])
        ELSE IF Below32(w) THEN <<majorType + 26>> \o Bytes2(w[3]) \o Bytes2(w[4])
        ELSE <<majorType + 27>> \o Bytes2(w[1]) \o Bytes2(w[2])
                                \o Bytes2(w[3]) \o Bytes2(w[4])

\* encodeUnsignedInt(value, bytes)
encodeUnsignedInt(w) == encodeHead(MAJOR_TYPE.UNSIGNED_INT * 32, w)

\* encodeString(str, bytes) for strings below 256 characters.
encodeString(text) ==
    encodeHead(MAJOR_TYPE.TEXT_STRING * 32, Small(Len(text))) \o text

\* encodeSID without the tag
encodeSIDUntagged(sid) == encodeUnsignedInt(Small(sid))

\* encodeSID(sid, bytes)
encodeSID(sid) == <<217, 1, 0>> \o encodeUnsignedInt(Small(sid))

\* a < b for strings, by character codes; also a < b for byte sequences.
StringLess(a, b) ==
    \/ Len(a) < Len(b) /\ SubSeq(b, 1, Len(a)) = a
    \/ \E i \in 1..(IF Len(a) < Len(b) THEN Len(a) ELSE Len(b)) :
          a[i] < b[i] /\ SubSeq(a, 1, i - 1) = SubSeq(b, 1, i - 1)

RECURSIVE insertKey(_, _)
insertKey(sorted, key) ==
    IF sorted = <<>> THEN <<key>>
    ELSE IF StringLess(key, Head(sorted)) THEN <<key>> \o sorted
    ELSE <<Head(sorted)>> \o insertKey(Tail(sorted), key)

RECURSIVE sortKeys(_)
\* keys.sort()
sortKeys(keys) ==
    IF keys = <<>> THEN <<>>
    ELSE insertKey(sortKeys(SubSeq(keys, 1, Len(keys) - 1)), keys[Len(keys)])

RECURSIVE encodeValue(_)
RECURSIVE encodeEntries(_, _)

\* The loop of encodeMap over the sorted keys.
encodeEntries(keys, entries) ==
    IF keys = <<>> THEN <<>>
    ELSE LET key == Head(keys)
             \* this.KNOWN_SIDS[key], 0 when the table has no such property
             sid == IF \E i \in 1..Len(KNOWN_SIDS) : KNOWN_SIDS[i].path = key
                    THEN KNOWN_SIDS[CHOOSE i \in 1..Len(KNOWN_SIDS) :
                                       KNOWN_SIDS[i].path = key].sid
                    ELSE 0
             \* obj[key]
             value == entries[CHOOSE i \in 1..Len(entries) : entries[i].key = key].value
         IN  (IF key # <<>> /\ key[1] = 47 /\ sid # 0
              THEN encodeSID(sid)
              ELSE encodeString(key))
             \o encodeValue(value) \o encodeEntries(Tail(keys), entries)

\* encodeValue(value, bytes)
encodeValue(v) ==
    LET \* encodeNegativeInt(value, bytes): nothing is pushed from 4294967296 on
        encodeNegativeInt(w) ==
            IF Below32(w) THEN encodeHead(MAJOR_TYPE.NEGATIVE_INT * 32, w) ELSE <<>>
        \* encodeMap(obj, bytes) for objects of fewer than 256 properties
        encodeMap(entries) ==
            encodeHead(MAJOR_TYPE.MAP * 32, Small(Len(entries)))
            \o encodeEntries(sortKeys([i \in 1..Len(entries) |-> entries[i].key]), entries)
    IN
    CASE v.t = "simple" -> <<224 + v.w[4]>>
      [] v.t = "int"    -> IF ~v.neg THEN encodeUnsignedInt(v.w)
                           ELSE encodeNegativeInt(Dec(v.w))
      [] v.t = "text"   -> encodeString(v.text)
      [] v.t = "map"    -> encodeMap(v.entries)

\* encode(value)
encode(v) == encodeValue(v)

\* decodeUnsignedInt(bytes, offset).  A read behind the end of the data
\* (undefined in the code) is given as an error.
decodeUnsignedInt(bytes, offset) ==
    LET additionalInfo == At(bytes, offset) % 32
        \* the bytes from offset + 1 to offset + n are there
        Has(n) == offset + n < Len(bytes)
        \* (b1 << 24) | (b2 << 16) | (b3 << 8) | b4 is a signed 32-bit number
        Int32Value(b1, b2, b3, b4) ==
            LET hi == b1 * 256 + b2
                lo == b3 * 256 + b4
            IN  IF b1 < 128 THEN IntValue(FALSE, <<0, 0, hi, lo>>)
                ELSE IntValue(TRUE, <<0, 0, 65535 - hi + (IF lo = 0 THEN 1 ELSE 0),
                                      (65536 - lo) % 65536>>)
    IN  IF additionalInfo < 24
        THEN [value |-> IntValue(FALSE, Small(additionalInfo)), offset |-> offset + 1]
        ELSE IF additionalInfo = 24 /\ Has(1)
        THEN [value |-> IntValue(FALSE, Small(At(bytes, offset + 1))), offset |-> offset + 2]
        ELSE IF additionalInfo = 25 /\ Has(2)
        THEN [value  |-> IntValue(FALSE, Small(At(bytes, offset + 1) * 256
                                               + At(bytes, offset + 2))),
              offset |-> offset + 3]
        ELSE IF additionalInfo = 26 /\ Has(4)
        THEN [value  |-> Int32Value(At(bytes, offset + 1), At(bytes, offset + 2),
                                    At(bytes, offset + 3), At(bytes, offset + 4)),
              offset |-> offset + 5]
        ELSE IF additionalInfo = 27 /\ Has(8)
        THEN [value  |-> IntValue(FALSE,
                            [i \in 1..4 |-> At(bytes, offset + 2 * i - 1) * 256
                                            + At(bytes, offset + 2 * i)]),
              offset |-> offset + 9]
        ELSE [value |-> ErrorValue, offset |-> offset]

\* decodeLength(bytes, offset), the length as decodeUnsignedInt reads it.
decodeLength(bytes, offset) ==
    LET r == decodeUnsignedInt(bytes, offset)
        \* the number read, which lies between -2^31 and 2^31
        length == (IF r.value.neg THEN -1 ELSE 1) * (r.value.w[3] * 65536 + r.value.w[4])
    IN  IF r.value.t = "error" \/ At(bytes, offset) % 32 = 27
        THEN [length |-> 0, offset |-> offset, thrown |-> TRUE]
        ELSE [length |-> length, offset |-> r.offset, thrown |-> FALSE]

\* decodeTextString(bytes, offset)
decodeTextString(bytes, offset) ==
    LET l == decodeLength(bytes, offset)
    IN  IF l.thrown \/ l.offset + l.length > Len(bytes)
        THEN [value |-> ErrorValue, offset |-> offset]
        ELSE [value  |-> Value("text", FALSE, Small(0), Slice(bytes, l.offset, l.offset + l.length), <<>>),
              offset |-> l.offset + l.length]

\* decodeSimple(bytes, offset) without the float.
decodeSimple(bytes, offset) ==
    LET additionalInfo == At(bytes, offset) % 32
    IN  IF additionalInfo \in {SIMPLE.FALSE_, SIMPLE.TRUE_, SIMPLE.NULL, SIMPLE.UNDEFINED}
        THEN [value |-> Value("simple", FALSE, Small(additionalInfo), <<>>, <<>>), offset |-> offset + 1]
        ELSE [value |-> ErrorValue, offset |-> offset]

RECURSIVE Decimal(_)
\* The decimal digits of n >= 0.
Decimal(n) == IF n < 10 THEN <<48 + n>> ELSE Decimal(n \div 10) \o <<48 + (n % 10)>>

\* The key decodeMap stores for a decoded key: the path of a tag-256 SID,
\* `SID:${key.value}` for a SID the table does not have, else the key.
keyOf(k) ==
    IF k.t = "tag" /\ k.w = Small(YANG_SID)
    THEN LET sid == k.entries[1].value
         IN  IF \E i \in 1..Len(KNOWN_SIDS) : IntValue(FALSE, Small(KNOWN_SIDS[i].sid)) = sid
             THEN KNOWN_SIDS[CHOOSE i \in 1..Len(KNOWN_SIDS) :
                     /\ IntValue(FALSE, Small(KNOWN_SIDS[i].sid)) = sid
                     /\ \A j \in 1..(i - 1) :
                           IntValue(FALSE, Small(KNOWN_SIDS[j].sid)) # sid].path
             ELSE <<83, 73, 68, 58>>
                  \o (IF sid.t = "int" /\ Below32(sid.w) /\ sid.w[3] < 32768
                      THEN (IF sid.neg THEN <<45>> ELSE <<>>) \o Decimal(sid.w[3] * 65536 + sid.w[4])
                      ELSE <<63>>)
    ELSE k.text

RECURSIVE decodeValue(_, _)
RECURSIVE decodeEntries(_, _, _, _)

\* The loop of decodeMap; left: the pairs still to be read.
decodeEntries(bytes, offset, left, entries) ==
    IF left <= 0 THEN [value |-> MapValue(entries), offset |-> offset]
    ELSE LET k == decodeValue(bytes, offset)
             v == decodeValue(bytes, k.offset)
         IN  IF k.value.t = "error" THEN k
             ELSE IF v.value.t = "error" THEN v
             ELSE LET key == keyOf(k.value)
                      \* map[key] = value
                      put == IF \E i \in 1..Len(entries) : entries[i].key = key
                             THEN [i \in 1..Len(entries) |->
                                     IF entries[i].key = key
                                     THEN [key |-> key, value |-> v.value]
                                     ELSE entries[i]]
                             ELSE Append(entries, [key |-> key, value |-> v.value])
                  IN  decodeEntries(bytes, v.offset, left - 1, put)

\* decodeMap(bytes, offset)
decodeMap(bytes, offset) ==
    LET l == decodeLength(bytes, offset)
    IN  IF l.thrown THEN [value |-> ErrorValue, offset |-> offset]
        ELSE decodeEntries(bytes, l.offset, l.length, <<>>)

\* decodeTagged(bytes, offset)
decodeTagged(bytes, offset) ==
    LET tagResult == decodeUnsignedInt(bytes, offset)
    IN  IF tagResult.value.t = "error" THEN tagResult
        ELSE LET valueResult == decodeValue(bytes, tagResult.offset)
             IN  IF valueResult.value.t = "error" THEN valueResult
                 ELSE [value  |-> Value("tag", FALSE, tagResult.value.w, <<>>,
                                        <<[key |-> <<>>, value |-> valueResult.value]>>),
                       offset |-> valueResult.offset]

\* decodeValue(bytes, offset)
decodeValue(bytes, offset) ==
    IF offset >= Len(bytes) THEN [value |-> ErrorValue, offset |-> offset]
    ELSE LET majorType == (At(bytes, offset) \div 32) % 8
         IN  CASE majorType = MAJOR_TYPE.UNSIGNED_INT -> decodeUnsignedInt(bytes, offset)
               [] majorType = MAJOR_TYPE.NEGATIVE_INT ->
                     LET result == decodeUnsignedInt(bytes, offset)
                         v == result.value
                     IN  [value  |-> IF v.t # "int" THEN v
                                     ELSE IF v.neg THEN IntValue(FALSE, Dec(v.w))
                                     ELSE IntValue(TRUE, Inc(v.w)),
                          offset |-> result.offset]
               [] majorType = MAJOR_TYPE.TEXT_STRING -> decodeTextString(bytes, offset)
               [] majorType = MAJOR_TYPE.MAP -> decodeMap(bytes, offset)
               [] majorType = MAJOR_TYPE.TAG -> decodeTagged(bytes, offset)
               [] majorType = MAJOR_TYPE.SIMPLE -> decodeSimple(bytes, offset)
               [] OTHER -> [value |-> ErrorValue, offset |-> offset]

\* decode(data)
decode(bytes) == decodeValue(bytes, 0).value

\* The values given to encode.  Integers: 0 and, with either sign, the
\* magnitudes at and next to the 1-, 2-, 4- and 8-byte boundaries, 2^31 and
\* 2^53.  Objects: up to MaxKeys different properties in any order, the i-th
\* with the value i, named "a", "b", "aa", by the unknown path "/x" or by
\* one of two paths of the table; and one object with a value of 2^31.  A
\* string and true.
CborValues ==
    LET TwoTo31 == <<0, 0, 32768, 0>>
        TwoTo32 == <<0, 1, 0, 0>>
        TwoTo53 == <<32, 0, 0, 0>>
        Magnitudes ==
            {Small(1), Small(23), Small(24), Small(25), Small(255), Small(256),
             Small(257), Small(65535), Small(65536), Small(65537),
             Dec(TwoTo31), TwoTo31, Inc(TwoTo31), Dec(TwoTo32), TwoTo32, Inc(TwoTo32),
             Dec(TwoTo53), TwoTo53}
        KeyNames ==
            {<<97>>, <<98>>, <<97, 97>>, <<47, 120>>,
             KNOWN_SIDS[1].path, KNOWN_SIDS[10].path}
        Different(s) == \A i \in 1..Len(s) : \A j \in 1..Len(s) : i # j => s[i] # s[j]
    IN  {IntValue(FALSE, Small(0))}
        \cup {IntValue(neg, w) : neg \in BOOLEAN, w \in Magnitudes}
        \cup {MapValue([i \in 1..Len(ks) |->
                          [key |-> ks[i], value |-> IntValue(FALSE, Small(i))]]) :
                 ks \in {s \in SeqsUpTo(KeyNames, MaxKeys) : Different(s)}}
        \cup {MapValue(<<[key |-> <<98>>, value |-> IntValue(FALSE, TwoTo31)],
                         [key |-> <<97>>,
                          value |-> Value("simple", FALSE, Small(SIMPLE.NULL), <<>>, <<>>)]>>),
              Value("text", FALSE, Small(0), <<47, 120>>, <<>>),
              Value("simple", FALSE, Small(SIMPLE.TRUE_), <<>>, <<>>)}

InitCBOR ==
    /\ cborValue \in CborValues
    /\ cborBytes = <<>>
    /\ cborDecoded = <<>>
    /\ cborAgain = <<>>
    /\ cborPc = "given"
    /\ fType = MUP1_CB_PING
    /\ fData = <<>>
    /\ InitMUP1Vars
    /\ messageIdCounter = 0
    /\ InitCoAPVars
    /\ InitCtlVars
    /\ InitConnVars
    /\ clientMessageId = 0
    /\ clientArgs = <<>>
    /\ clientMessage = <<>>
    /\ clientBuilt = 0
    /\ requestArgs = <<>>
    /\ requestBuilt = <<>>

\* encode(value)
Encode ==
    /\ cborPc = "given"
    /\ cborBytes' = encode(cborValue)
    /\ cborPc' = "encoded"
    /\ UNCHANGED <<cborValue, cborDecoded, cborAgain, clientVars, lateVars, connVars, appVars,
                   mupVars, coapVars, ctlVars>>

\* decode(data) of the encoded bytes
Decode ==
    /\ cborPc = "encoded"
    /\ cborDecoded' = decode(cborBytes)
    /\ cborPc' = "decoded"
    /\ UNCHANGED <<cborValue, cborBytes, cborAgain, clientVars, lateVars, connVars, appVars,
                   mupVars, coapVars, ctlVars>>

\* encode of the decoded value
Reencode ==
    /\ cborPc = "decoded"
    /\ cborDecoded.t # "error"
    /\ cborAgain' = encode(cborDecoded)
    /\ cborPc' = "reencoded"
    /\ UNCHANGED <<cborValue, cborBytes, cborDecoded, clientVars, lateVars, connVars, appVars,
                   mupVars, coapVars, ctlVars>>

SpecCBOR == InitCBOR /\ [][Encode \/ Decode \/ Reencode]_vars

----------------------------------------------------------------------------
(* Claims about the CBOR codec *)

\* C29: for every integer v from -2^53 to 2^53, decode(encode(v)) = v: the
\* encoder emits a complete integer item and the decoder returns the same
\* number, with no truncation and no change of sign, also for the values
\* from 2^31 to 2^32 - 1 and at the 1-, 2-, 4- and 8-byte boundaries.
C29_IntegerRoundTrip ==
    (cborPc \in {"decoded", "reencoded"} /\ cborValue.t = "int")
        => cborDecoded = cborValue

RECURSIVE EncodedKeys(_, _, _)
\* The encoded forms of the keys of the map item whose pairs start at
\* offset, in the order in which they stand in the bytes.
EncodedKeys(bytes, offset, left) ==
    IF left = 0 THEN <<>>
    ELSE LET k == decodeValue(bytes, offset)
             v == decodeValue(bytes, k.offset)
         IN  <<Slice(bytes, offset, k.offset)>> \o EncodedKeys(bytes, v.offset, left - 1)

\* Byte-wise order of encoded keys: the shorter encoding first, encodings of
\* the same length by their bytes.
CanonicalLess(a, b) ==
    \/ Len(a) < Len(b)
    \/ Len(a) = Len(b) /\ StringLess(a, b)

EmittedKeys == EncodedKeys(cborBytes, 1, Len(cborValue.entries))

\* C30: in a map emitted by encodeMap the encoded keys stand in ascending
\* byte-wise order of their encoded form, a SID-substituted key by its
\* tag-256 encoding, and encoding the decoded map again gives the same bytes.
C30_MapKeysCanonical ==
    (cborPc # "given" /\ cborValue.t = "map")
        => /\ \A i \in 1..(Len(EmittedKeys) - 1) :
                 CanonicalLess(EmittedKeys[i], EmittedKeys[i + 1])
           /\ cborPc = "reencoded" => cborAgain = cborBytes

----------------------------------------------------------------------------
(* Properties: a frame cut short by the SOF of the next one (SpecLine) *)

\* The line is a frame cut short after one payload byte, followed at once by
\* the well-formed last frame.
CutShortLine == stream = <<MUP1_SOF, MUP1_CB_COAP, 65>> \o emitted

\* C35: when a frame is cut short and the SOF of a well-formed frame arrives
\* while the parser is in state data, the parser has abandoned the partial
\* frame and delivers the well-formed frame that SOF begins: once the whole
\* line is read, the frames returned are exactly that frame.
C35_SofInDataBeginsFrame ==
    (CutShortLine /\ fed = Len(stream)) =>
        frames = <<[type |-> fType, data |-> fData, checksum |-> LastFour(emitted)]>>

----------------------------------------------------------------------------
(* Properties: retransmission timers and retries (checked under Spec) *)

\* C37: whenever no handler is running, every exchange in activeRequests has
\* its one timer armed, and every registered exchange (hence every armed
\* timer, which lives in its entry) belongs to a promise that is neither
\* resolved nor rejected.
C37_OneArmedTimerPerExchange ==
    \A messageId \in DOMAIN activeRequests :
        /\ activeRequests[messageId].timer # 0
        /\ exchanges[activeRequests[messageId].ex].outcome = "pending"

\* The step is the expiry of the timer of the exchange registered under
\* messageId (a response that reaches the exchange is counted in its
\* journal, an expiry is not).
TimerExpires(messageId) ==
    LET w == handleTimeout(TheWorld, messageId)
    IN  /\ activeRequests[messageId].timer # 0
        /\ budget' = budget
        /\ messageIdCounter' = w.counter
        /\ activeRequests' = w.active
        /\ exchanges' = w.exs

\* What a step does to the retry counter of a registered exchange: an expiry
\* adds one, anything else (a block acknowledgement, a response block)
\* leaves it; the exchange leaves the registry rejected with the timeout
\* error exactly when its timer expires with four expiries counted before.
RetryStep ==
    \A messageId \in DOMAIN activeRequests :
        LET active == activeRequests[messageId]
        IN  IF messageId \in DOMAIN activeRequests'
            THEN /\ activeRequests'[messageId].ex = active.ex
                 /\ activeRequests'[messageId].request.retryCount =
                        IF TimerExpires(messageId)
                        THEN active.request.retryCount + 1
                        ELSE active.request.retryCount
            ELSE (/\ exchanges'[active.ex].outcome = "rejected"
                  /\ exchanges'[active.ex].error = "timeout")
                 <=> (TimerExpires(messageId)
                      /\ active.request.retryCount = MAX_RETRANSMIT - 1)

\* C38: the retry counter of an exchange never decreases and is not reset
\* when a block is acknowledged; the exchange survives at most 4 expiries
\* and is rejected at the fifth expiry counted over the whole exchange, so
\* the counter of a registered exchange stays below 5.
C38_RetryCounterOverWholeExchange ==
    /\ [](\A messageId \in DOMAIN activeRequests :
             activeRequests[messageId].request.retryCount < MAX_RETRANSMIT)
    /\ [][RetryStep]_vars

\* An exchange of two request blocks whose first block was acknowledged and
\* which was rejected with the timeout error: the first block, the second
\* block and four retransmissions, the expiries falling before and after
\* the acknowledgement.
C38_Witness ==
    \E e \in 1..Len(exchanges) :
        /\ exchanges[e].outcome = "rejected"
        /\ exchanges[e].error = "timeout"
        /\ exchanges[e].acks = 1
        /\ exchanges[e].responses = 1
        /\ exchanges[e].transmissions = MAX_RETRANSMIT + 1

----------------------------------------------------------------------------
(* The controller's waits with timers that do elapse (SpecControllerFair): *)
(* setTimeout runs the callback of every timer that is not cleared.        *)

SpecControllerFair == SpecController /\ WF_vars(WaitTimeout)

\* What a step may do to the waitForResponse calls.  A call is settled by
\* the handler of a frame of its type that handleIncomingData looked at in
\* this step, and then the handler stored under the type is gone and the
\* timer cleared, or with null by its own timer, in a step without a frame.
\* A frame settles at most one call.
WaitStep ==
    LET settled == {w \in 1..Len(waits) : waits'[w].settleCalls # waits[w].settleCalls}
        looked  == Len(received') - Len(received)
    IN  /\ \A w \in settled : \A v \in settled : looked = 1 => w = v
        /\ \A w \in settled :
              /\ waits[w].settleCalls = 0
              /\ waits'[w].settleCalls = 1
              /\ ~waits'[w].timer
              /\ IF waits'[w].outcome = "frame"
                 THEN /\ looked = 1
                      /\ received'[Len(received')].type = waits[w].type
                      /\ responseCallbacks[waits[w].type] = w
                      /\ responseCallbacks'[waits[w].type] = 0
                 ELSE /\ waits'[w].outcome = "null"
                      /\ looked = 0
                      /\ waits[w].timer

\* C40: every waitForResponse call resolves exactly once, with the frame
\* when a frame of the awaited type is dispatched to its handler and
\* otherwise with null when its own timeout elapses, whatever the order of
\* registrations, frames and timeouts; a frame is delivered to at most one
\* waiter, whose handler is removed after use.
C40_EveryWaitResolvesOnce ==
    /\ [](\A w \in 1..Len(waits) :
             /\ waits[w].settleCalls <= 1
             /\ waits[w].settleCalls = 1 <=> waits[w].outcome # "pending"
             /\ waits[w].timer <=> waits[w].outcome = "pending")
    /\ [][WaitStep]_vars
    /\ \A w \in 1..MaxWaits :
          [](Len(waits) >= w => <>(Len(waits) >= w /\ waits[w].settleCalls = 1))

\* Two calls wait for the same frame type; the later one was resolved with a
\* frame and the earlier one, whose handler it had replaced, with null by
\* its own timeout.
C40_Witness ==
    /\ Len(waits) = 2
    /\ waits[1].type = waits[2].type
    /\ waits[2].outcome = "frame"
    /\ waits[1].outcome = "null"
    /\ waits[1].settleCalls = 1
    /\ waits[2].settleCalls = 1

----------------------------------------------------------------------------
(* SID tables (SpecSID): the table KNOWN_SIDS of the CBOR codec, which     *)
(* encodeMap and decodeMap consult for the keys of an object, and the SID  *)
(* table of YANGModelBrowser (src/js/yang-model-browser.js) with its two   *)
(* lookups.  The codec is given objects with one property, or the bytes of *)
(* a one-pair map whose key is a tag-256 SID; the browser is asked for the *)
(* SID of a path or the path of a SID, and then the opposite way for what  *)
(* it returned.                                                            *)

\* this.sidMappings = buildSIDMappings(): the rows of the object literal, one
\* per SID, in ascending order of the SID, the order in which
\* Object.entries yields them.  A path is the sequence of its characters.
sidMappings ==
    <<
     \* '/ietf-interfaces:interfaces'
     [sid |-> 1000,
      path |-> <<
        47, 105, 101, 116, 102, 45, 105, 110, 116, 101, 114, 102, 97, 99,
        101, 115, 58, 105, 110, 116, 101, 114, 102, 97, 99, 101, 115>>],
     \* '/ietf-interfaces:interfaces/interface'
     [sid |-> 1001,
      path |-> <<
        47, 105, 101, 116, 102, 45, 105, 110, 116, 101, 114, 102, 97, 99,
        101, 115, 58, 105, 110, 116, 101, 114, 102, 97, 99, 101, 115, 47,
        105, 110, 116, 101, 114, 102, 97, 99, 101>>],
     \* '/ietf-interfaces:interfaces/interface/name'
     [sid |-> 1002,
      path |-> <<
        47, 105, 101, 116, 102, 45, 105, 110, 116, 101, 114, 102, 97, 99,
        101, 115, 58, 105, 110, 116, 101, 114, 102, 97, 99, 101, 115, 47,
        105, 110, 116, 101, 114, 102, 97, 99, 101, 47, 110, 97, 109, 101>>],
     \* '/ietf-interfaces:interfaces/interface/type'
     [sid |-> 1003,
      path |-> <<
        47, 105, 101, 116, 102, 45, 105, 110, 116, 101, 114, 102, 97, 99,
        101, 115, 58, 105, 110, 116, 101, 114, 102, 97, 99, 101, 115, 47,
        105, 110, 116, 101, 114, 102, 97, 99, 101, 47, 116, 121, 112, 101>>],
     \* '/ietf-interfaces:interfaces/interface/enabled'
     [sid |-> 1004,
      path |-> <<
        47, 105, 101, 116, 102, 45, 105, 110, 116, 101, 114, 102, 97, 99,
        101, 115, 58, 105, 110, 116, 101, 114, 102, 97, 99, 101, 115, 47,
        105, 110, 116, 101, 114, 102, 97, 99, 101, 47, 101, 110, 97, 98,
        108, 101, 100>>],
     \* '/ietf-interfaces:interfaces/interface/description'
     [sid |-> 1005,
      path |-> <<
        47, 105, 101, 116, 102, 45, 105, 110, 116, 101, 114, 102, 97, 99,
        101, 115, 58, 105, 110, 116, 101, 114, 102, 97, 99, 101, 115, 47,
        105, 110, 116, 101, 114, 102, 97, 99, 101, 47, 100, 101, 115, 99,
        114, 105, 112, 116, 105, 111, 110>>],
     \* '/ietf-interfaces:interfaces/interface/link-up-down-trap-enable'
     [sid |-> 1006,
      path |-> <<
        47, 105, 101, 116, 102, 45, 105, 110, 116, 101, 114, 102, 97, 99,
        101, 115, 58, 105, 110, 116, 101, 114, 102, 97, 99, 101, 115, 47,
        105, 110, 116, 101, 114, 102, 97, 99, 101, 47, 108, 105, 110, 107,
        45, 117, 112, 45, 100, 111, 119, 110, 45, 116, 114, 97, 112, 45,
        101, 110, 97, 98, 108, 101>>],
     \* '/ietf-interfaces:interfaces/interface/admin-status'
     [sid |-> 1007,
      path |-> <<
        47, 105, 101, 116, 102, 45, 105, 110, 116, 101, 114, 102, 97, 99,
        101, 115, 58, 105, 110, 116, 101, 114, 102, 97, 99, 101, 115, 47,
        105, 110, 116, 101, 114, 102, 97, 99, 101, 47, 97, 100, 109, 105,
        110, 45, 115, 116, 97, 116, 117, 115>>],
     \* '/ietf-interfaces:interfaces/interface/oper-status'
     [sid |-> 1008,
      path |-> <<
        47, 105, 101, 116, 102, 45, 105, 110, 116, 101, 114, 102, 97, 99,
        101, 115, 58, 105, 110, 116, 101, 114, 102, 97, 99, 101, 115, 47,
        105, 110, 116, 101, 114, 102, 97, 99, 101, 47, 111, 112, 101, 114,
        45, 115, 116, 97, 116, 117, 115>>],
     \* '/ietf-interfaces:interfaces/interface/last-change'
     [sid |-> 1009,
      path |-> <<
        47, 105, 101, 116, 102, 45, 105, 110, 116, 101, 114, 102, 97, 99,
        101, 115, 58, 105, 110, 116, 101, 114, 102, 97, 99, 101, 115, 47,
        105, 110, 116, 101, 114, 102, 97, 99, 101, 47, 108, 97, 115, 116,
        45, 99, 104, 97, 110, 103, 101>>],
     \* '/ietf-interfaces:interfaces/interface/if-index'
     [sid |-> 1010,
      path |-> <<
        47, 105, 101, 116, 102, 45, 105, 110, 116, 101, 114, 102, 97, 99,
        101, 115, 58, 105, 110, 116, 101, 114, 102, 97, 99, 101, 115, 47,
        105, 110, 116, 101, 114, 102, 97, 99, 101, 47, 105, 102, 45, 105,
        110, 100, 101, 120>>],
     \* '/ietf-interfaces:interfaces/interface/phys-address'
     [sid |-> 1011,
      path |-> <<
        47, 105, 101, 116, 102, 45, 105, 110, 116, 101, 114, 102, 97, 99,
        101, 115, 58, 105, 110, 116, 101, 114, 102, 97, 99, 101, 115, 47,
        105, 110, 116, 101, 114, 102, 97, 99, 101, 47, 112, 104, 121, 115,
        45, 97, 100, 100, 114, 101, 115, 115>>],
     \* '/ietf-interfaces:interfaces/interface/higher-layer-if'
     [sid |-> 1012,
      path |-> <<
        47, 105, 101, 116, 102, 45, 105, 110, 116, 101, 114, 102, 97, 99,
        101, 115, 58, 105, 110, 116, 101, 114, 102, 97, 99, 101, 115, 47,
        105, 110, 116, 101, 114, 102, 97, 99, 101, 47, 104, 105, 103, 104,
        101, 114, 45, 108, 97, 121, 101, 114, 45, 105, 102>>],
     \* '/ietf-interfaces:interfaces/interface/lower-layer-if'
     [sid |-> 1013,
      path |-> <<
        47, 105, 101, 116, 102, 45, 105, 110, 116, 101, 114, 102, 97, 99,
        101, 115, 58, 105, 110, 116, 101, 114, 102, 97, 99, 101, 115, 47,
        105, 110, 116, 101, 114, 102, 97, 99, 101, 47, 108, 111, 119, 101,
        114, 45, 108, 97, 121, 101, 114, 45, 105, 102>>],
     \* '/ietf-interfaces:interfaces/interface/speed'
     [sid |-> 1014,
      path |-> <<
        47, 105, 101, 116, 102, 45, 105, 110, 116, 101, 114, 102, 97, 99,
        101, 115, 58, 105, 110, 116, 101, 114, 102, 97, 99, 101, 115, 47,
        105, 110, 116, 101, 114, 102, 97, 99, 101, 47, 115, 112, 101, 101,
        100>>],
     \* '/ietf-interfaces:interfaces/interface/statistics'
     [sid |-> 1015,
      path |-> <<
        47, 105, 101, 116, 102, 45, 105, 110, 116, 101, 114, 102, 97, 99,
        101, 115, 58, 105, 110, 116, 101, 114, 102, 97, 99, 101, 115, 47,
        105, 110, 116, 101, 114, 102, 97, 99, 101, 47, 115, 116, 97, 116,
        105, 115, 116, 105, 99, 115>>],
     \* '/ietf-interfaces:interfaces/interface/statistics/discontinuity-time'
     [sid |-> 1016,
      path |-> <<
        47, 105, 101, 116, 102, 45, 105, 110, 116, 101, 114, 102, 97, 99,
        101, 115, 58, 105, 110, 116, 101, 114, 102, 97, 99, 101, 115, 47,
        105, 110, 116, 101, 114, 102, 97, 99, 101, 47, 115, 116, 97, 116,
        105, 115, 116, 105, 99, 115, 47, 100, 105, 115, 99, 111, 110, 116,
        105, 110, 117, 105, 116, 121, 45, 116, 105, 109, 101>>],
     \* '/ietf-interfaces:interfaces/interface/statistics/in-octets'
     [sid |-> 1017,
      path |-> <<
        47, 105, 101, 116, 102, 45, 105, 110, 116, 101, 114, 102, 97, 99,
        101, 115, 58, 105, 110, 116, 101, 114, 102, 97, 99, 101, 115, 47,
        105, 110, 116, 101, 114, 102, 97, 99, 101, 47, 115, 116, 97, 116,
        105, 115, 116, 105, 99, 115, 47, 105, 110, 45, 111, 99, 116, 101,
        116, 115>>],
     \* '/ietf-interfaces:interfaces/interface/statistics/in-unicast-pkts'
     [sid |-> 1018,
      path |-> <<
        47, 105, 101, 116, 102, 45, 105, 110, 116, 101, 114, 102, 97, 99,
        101, 115, 58, 105, 110, 116, 101, 114, 102, 97, 99, 101, 115, 47,
        105, 110, 116, 101, 114, 102, 97, 99, 101, 47, 115, 116, 97, 116,
        105, 115, 116, 105, 99, 115, 47, 105, 110, 45, 117, 110, 105, 99,
        97, 115, 116, 45, 112, 107, 116, 115>>],
     \* '/ietf-interfaces:interfaces/interface/statistics/in-broadcast-pkts'
     [sid |-> 1019,
      path |-> <<
        47, 105, 101, 116, 102, 45, 105, 110, 116, 101, 114, 102, 97, 99,
        101, 115, 58, 105, 110, 116, 101, 114, 102, 97, 99, 101, 115, 47,
        105, 110, 116, 101, 114, 102, 97, 99, 101, 47, 115, 116, 97, 116,
        105, 115, 116, 105, 99, 115, 47, 105, 110, 45, 98, 114, 111, 97,
        100, 99, 97, 115, 116, 45, 112, 107, 116, 115>>],
     \* '/ietf-interfaces:interfaces/interface/statistics/in-multicast-pkts'
     [sid |-> 1020,
      path |-> <<
        47, 105, 101, 116, 102, 45, 105, 110, 116, 101, 114, 102, 97, 99,
        101, 115, 58, 105, 110, 116, 101, 114, 102, 97, 99, 101, 115, 47,
        105, 110, 116, 101, 114, 102, 97, 99, 101, 47, 115, 116, 97, 116,
        105, 115, 116, 105, 99, 115, 47, 105, 110, 45, 109, 117, 108, 116,
        105, 99, 97, 115, 116, 45, 112, 107, 116, 115>>],
     \* '/ietf-interfaces:interfaces/interface/statistics/in-discards'
     [sid |-> 1021,
      path |-> <<
        47, 105, 101, 116, 102, 45, 105, 110, 116, 101, 114, 102, 97, 99,
        101, 115, 58, 105, 110, 116, 101, 114, 102, 97, 99, 101, 115, 47,
        105, 110, 116, 101, 114, 102, 97, 99, 101, 47, 115, 116, 97, 116,
        105, 115, 116, 105, 99, 115, 47, 105, 110, 45, 100, 105, 115, 99,
        97, 114, 100, 115>>],
     \* '/ietf-interfaces:interfaces/interface/statistics/in-errors'
     [sid |-> 1022,
      path |-> <<
        47, 105, 101, 116, 102, 45, 105, 110, 116, 101, 114, 102, 97, 99,
        101, 115, 58, 105, 110, 116, 101, 114, 102, 97, 99, 101, 115, 47,
        105, 110, 116, 101, 114, 102, 97, 99, 101, 47, 115, 116, 97, 116,
        105, 115, 116, 105, 99, 115, 47, 105, 110, 45, 101, 114, 114, 111,
        114, 115>>],
     \* '/ietf-interfaces:interfaces/interface/statistics/out-octets'
     [sid |-> 1023,
      path |-> <<
        47, 105, 101, 116, 102, 45, 105, 110, 116, 101, 114, 102, 97, 99,
        101, 115, 58, 105, 110, 116, 101, 114, 102, 97, 99, 101, 115, 47,
        105, 110, 116, 101, 114, 102, 97, 99, 101, 47, 115, 116, 97, 116,
        105, 115, 116, 105, 99, 115, 47, 111, 117, 116, 45, 111, 99, 116,
        101, 116, 115>>],
     \* '/ietf-interfaces:interfaces/interface/statistics/out-unicast-pkts'
     [sid |-> 1024,
      path |-> <<
        47, 105, 101, 116, 102, 45, 105, 110, 116, 101, 114, 102, 97, 99,
        101, 115, 58, 105, 110, 116, 101, 114, 102, 97, 99, 101, 115, 47,
        105, 110, 116, 101, 114, 102, 97, 99, 101, 47, 115, 116, 97, 116,
        105, 115, 116, 105, 99, 115, 47, 111, 117, 116, 45, 117, 110, 105,
        99, 97, 115, 116, 45, 112, 107, 116, 115>>],
     \* '/ietf-interfaces:interfaces/interface/statistics/out-broadcast-pkts'
     [sid |-> 1025,
      path |-> <<
        47, 105, 101, 116, 102, 45, 105, 110, 116, 101, 114, 102, 97, 99,
        101, 115, 58, 105, 110, 116, 101, 114, 102, 97, 99, 101, 115, 47,
        105, 110, 116, 101, 114, 102, 97, 99, 101, 47, 115, 116, 97, 116,
        105, 115, 116, 105, 99, 115, 47, 111, 117, 116, 45, 98, 114, 111,
        97, 100, 99, 97, 115, 116, 45, 112, 107, 116, 115>>],
     \* '/ietf-interfaces:interfaces/interface/statistics/out-multicast-pkts'
     [sid |-> 1026,
      path |-> <<
        47, 105, 101, 116, 102, 45, 105, 110, 116, 101, 114, 102, 97, 99,
        101, 115, 58, 105, 110, 116, 101, 114, 102, 97, 99, 101, 115, 47,
        105, 110, 116, 101, 114, 102, 97, 99, 101, 47, 115, 116, 97, 116,
        105, 115, 116, 105, 99, 115, 47, 111, 117, 116, 45, 109, 117, 108,
        116, 105, 99, 97, 115, 116, 45, 112, 107, 116, 115>>],
     \* '/ietf-interfaces:interfaces/interface/statistics/out-discards'
     [sid |-> 1027,
      path |-> <<
        47, 105, 101, 116, 102, 45, 105, 110, 116, 101, 114, 102, 97, 99,
        101, 115, 58, 105, 110, 116, 101, 114, 102, 97, 99, 101, 115, 47,
        105, 110, 116, 101, 114, 102, 97, 99, 101, 47, 115, 116, 97, 116,
        105, 115, 116, 105, 99, 115, 47, 111, 117, 116, 45, 100, 105, 115,
        99, 97, 114, 100, 115>>],
     \* '/ietf-interfaces:interfaces/interface/statistics/out-errors'
     [sid |-> 1028,
      path |-> <<
        47, 105, 101, 116, 102, 45, 105, 110, 116, 101, 114, 102, 97, 99,
        101, 115, 58, 105, 110, 116, 101, 114, 102, 97, 99, 101, 115, 47,
        105, 110, 116, 101, 114, 102, 97, 99, 101, 47, 115, 116, 97, 116,
        105, 115, 116, 105, 99, 115, 47, 111, 117, 116, 45, 101, 114, 114,
        111, 114, 115>>],
     \* '/ieee802-dot1q-bridge:bridges'
     [sid |-> 2000,
      path |-> <<
        47, 105, 101, 101, 101, 56, 48, 50, 45, 100, 111, 116, 49, 113, 45,
        98, 114, 105, 100, 103, 101, 58, 98, 114, 105, 100, 103, 101, 115>>],
     \* '/ieee802-dot1q-bridge:bridges/bridge'
     [sid |-> 2001,
      path |-> <<
        47, 105, 101, 101, 101, 56, 48, 50, 45, 100, 111, 116, 49, 113, 45,
        98, 114, 105, 100, 103, 101, 58, 98, 114, 105, 100, 103, 101, 115,
        47, 98, 114, 105, 100, 103, 101>>],
     \* '/ieee802-dot1q-bridge:bridges/bridge/name'
     [sid |-> 2002,
      path |-> <<
        47, 105, 101, 101, 101, 56, 48, 50, 45, 100, 111, 116, 49, 113, 45,
        98, 114, 105, 100, 103, 101, 58, 98, 114, 105, 100, 103, 101, 115,
        47, 98, 114, 105, 100, 103, 101, 47, 110, 97, 109, 101>>],
     \* '/ieee802-dot1q-bridge:bridges/bridge/ports'
     [sid |-> 2003,
      path |-> <<
        47, 105, 101, 101, 101, 56, 48, 50, 45, 100, 111, 116, 49, 113, 45,
        98, 114, 105, 100, 103, 101, 58, 98, 114, 105, 100, 103, 101, 115,
        47, 98, 114, 105, 100, 103, 101, 47, 112, 111, 114, 116, 115>>],
     \* '/ieee802-dot1q-bridge:bridges/bridge/ports/port'
     [sid |-> 2004,
      path |-> <<
        47, 105, 101, 101, 101, 56, 48, 50, 45, 100, 111, 116, 49, 113, 45,
        98, 114, 105, 100, 103, 101, 58, 98, 114, 105, 100, 103, 101, 115,
        47, 98, 114, 105, 100, 103, 101, 47, 112, 111, 114, 116, 115, 47,
        112, 111, 114, 116>>],
     \* '/ieee802-dot1q-bridge:bridges/bridge/ports/port/name'
     [sid |-> 2005,
      path |-> <<
        47, 105, 101, 101, 101, 56, 48, 50, 45, 100, 111, 116, 49, 113, 45,
        98, 114, 105, 100, 103, 101, 58, 98, 114, 105, 100, 103, 101, 115,
        47, 98, 114, 105, 100, 103, 101, 47, 112, 111, 114, 116, 115, 47,
        112, 111, 114, 116, 47, 110, 97, 109, 101>>],
     \* '/ieee802-dot1q-bridge:bridges/bridge/ports/port/pvid'
     [sid |-> 2006,
      path |-> <<
        47, 105, 101, 101, 101, 56, 48, 50, 45, 100, 111, 116, 49, 113, 45,
        98, 114, 105, 100, 103, 101, 58, 98, 114, 105, 100, 103, 101, 115,
        47, 98, 114, 105, 100, 103, 101, 47, 112, 111, 114, 116, 115, 47,
        112, 111, 114, 116, 47, 112, 118, 105, 100>>],
     \* '/ieee802-dot1q-bridge:bridges/bridge/ports/port/default-priority'
     [sid |-> 2007,
      path |-> <<
        47, 105, 101, 101, 101, 56, 48, 50, 45, 100, 111, 116, 49, 113, 45,
        98, 114, 105, 100, 103, 101, 58, 98, 114, 105, 100, 103, 101, 115,
        47, 98, 114, 105, 100, 103, 101, 47, 112, 111, 114, 116, 115, 47,
        112, 111, 114, 116, 47, 100, 101, 102, 97, 117, 108, 116, 45, 112,
        114, 105, 111, 114, 105, 116, 121>>],
     \* '/ieee802-dot1q-bridge:bridges/bridge/ports/port/priority-regeneration'
     [sid |-> 2008,
      path |-> <<
        47, 105, 101, 101, 101, 56, 48, 50, 45, 100, 111, 116, 49, 113, 45,
        98, 114, 105, 100, 103, 101, 58, 98, 114, 105, 100, 103, 101, 115,
        47, 98, 114, 105, 100, 103, 101, 47, 112, 111, 114, 116, 115, 47,
        112, 111, 114, 116, 47, 112, 114, 105, 111, 114, 105, 116, 121, 45,
        114, 101, 103, 101, 110, 101, 114, 97, 116, 105, 111, 110>>],
     \* '/ieee802-dot1q-bridge:bridges/bridge/ports/port/pcp-decoding'
     [sid |-> 2009,
      path |-> <<
        47, 105, 101, 101, 101, 56, 48, 50, 45, 100, 111, 116, 49, 113, 45,
        98, 114, 105, 100, 103, 101, 58, 98, 114, 105, 100, 103, 101, 115,
        47, 98, 114, 105, 100, 103, 101, 47, 112, 111, 114, 116, 115, 47,
        112, 111, 114, 116, 47, 112, 99, 112, 45, 100, 101, 99, 111, 100,
        105, 110, 103>>],
     \* '/ieee802-dot1q-bridge:bridges/bridge/ports/port/pcp-encoding'
     [sid |-> 2010,
      path |-> <<
        47, 105, 101, 101, 101, 56, 48, 50, 45, 100, 111, 116, 49, 113, 45,
        98, 114, 105, 100, 103, 101, 58, 98, 114, 105, 100, 103, 101, 115,
        47, 98, 114, 105, 100, 103, 101, 47, 112, 111, 114, 116, 115, 47,
        112, 111, 114, 116, 47, 112, 99, 112, 45, 101, 110, 99, 111, 100,
        105, 110, 103>>],
     \* '/ieee802-dot1q-bridge:bridges/bridge/ports/port/use-dei'
     [sid |-> 2011,
      path |-> <<
        47, 105, 101, 101, 101, 56, 48, 50, 45, 100, 111, 116, 49, 113, 45,
        98, 114, 105, 100, 103, 101, 58, 98, 114, 105, 100, 103, 101, 115,
        47, 98, 114, 105, 100, 103, 101, 47, 112, 111, 114, 116, 115, 47,
        112, 111, 114, 116, 47, 117, 115, 101, 45, 100, 101, 105>>],
     \* '/ieee802-dot1q-bridge:bridges/bridge/ports/port/drop-encoding'
     [sid |-> 2012,
      path |-> <<
        47, 105, 101, 101, 101, 56, 48, 50, 45, 100, 111, 116, 49, 113, 45,
        98, 114, 105, 100, 103, 101, 58, 98, 114, 105, 100, 103, 101, 115,
        47, 98, 114, 105, 100, 103, 101, 47, 112, 111, 114, 116, 115, 47,
        112, 111, 114, 116, 47, 100, 114, 111, 112, 45, 101, 110, 99, 111,
        100, 105, 110, 103>>],
     \* '/ieee802-dot1q-bridge:bridges/bridge/ports/port/service-access-priority-selection'
     [sid |-> 2013,
      path |-> <<
        47, 105, 101, 101, 101, 56, 48, 50, 45, 100, 111, 116, 49, 113, 45,
        98, 114, 105, 100, 103, 101, 58, 98, 114, 105, 100, 103, 101, 115,
        47, 98, 114, 105, 100, 103, 101, 47, 112, 111, 114, 116, 115, 47,
        112, 111, 114, 116, 47, 115, 101, 114, 118, 105, 99, 101, 45, 97,
        99, 99, 101, 115, 115, 45, 112, 114, 105, 111, 114, 105, 116, 121,
        45, 115, 101, 108, 101, 99, 116, 105, 111, 110>>],
     \* '/ieee802-dot1q-bridge:bridges/bridge/vlans'
     [sid |-> 2014,
      path |-> <<
        47, 105, 101, 101, 101, 56, 48, 50, 45, 100, 111, 116, 49, 113, 45,
        98, 114, 105, 100, 103, 101, 58, 98, 114, 105, 100, 103, 101, 115,
        47, 98, 114, 105, 100, 103, 101, 47, 118, 108, 97, 110, 115>>],
     \* '/ieee802-dot1q-bridge:bridges/bridge/vlans/vlan'
     [sid |-> 2015,
      path |-> <<
        47, 105, 101, 101, 101, 56, 48, 50, 45, 100, 111, 116, 49, 113, 45,
        98, 114, 105, 100, 103, 101, 58, 98, 114, 105, 100, 103, 101, 115,
        47, 98, 114, 105, 100, 103, 101, 47, 118, 108, 97, 110, 115, 47,
        118, 108, 97, 110>>],
     \* '/ieee802-dot1q-bridge:bridges/bridge/vlans/vlan/vid'
     [sid |-> 2016,
      path |-> <<
        47, 105, 101, 101, 101, 56, 48, 50, 45, 100, 111, 116, 49, 113, 45,
        98, 114, 105, 100, 103, 101, 58, 98, 114, 105, 100, 103, 101, 115,
        47, 98, 114, 105, 100, 103, 101, 47, 118, 108, 97, 110, 115, 47,
        118, 108, 97, 110, 47, 118, 105, 100>>],
     \* '/ieee802-dot1q-bridge:bridges/bridge/vlans/vlan/name'
     [sid |-> 2017,
      path |-> <<
        47, 105, 101, 101, 101, 56, 48, 50, 45, 100, 111, 116, 49, 113, 45,
        98, 114, 105, 100, 103, 101, 58, 98, 114, 105, 100, 103, 101, 115,
        47, 98, 114, 105, 100, 103, 101, 47, 118, 108, 97, 110, 115, 47,
        118, 108, 97, 110, 47, 110, 97, 109, 101>>],
     \* '/ieee802-dot1q-bridge:bridges/bridge/vlans/vlan/member-ports'
     [sid |-> 2018,
      path |-> <<
        47, 105, 101, 101, 101, 56, 48, 50, 45, 100, 111, 116, 49, 113, 45,
        98, 114, 105, 100, 103, 101, 58, 98, 114, 105, 100, 103, 101, 115,
        47, 98, 114, 105, 100, 103, 101, 47, 118, 108, 97, 110, 115, 47,
        118, 108, 97, 110, 47, 109, 101, 109, 98, 101, 114, 45, 112, 111,
        114, 116, 115>>],
     \* '/ieee802-dot1q-bridge:bridges/bridge/vlans/vlan/untagged-ports'
     [sid |-> 2019,
      path |-> <<
        47, 105, 101, 101, 101, 56, 48, 50, 45, 100, 111, 116, 49, 113, 45,
        98, 114, 105, 100, 103, 101, 58, 98, 114, 105, 100, 103, 101, 115,
        47, 98, 114, 105, 100, 103, 101, 47, 118, 108, 97, 110, 115, 47,
        118, 108, 97, 110, 47, 117, 110, 116, 97, 103, 103, 101, 100, 45,
        112, 111, 114, 116, 115>>],
     \* '/ieee802-dot1q-sched-bridge:gate-parameter-table'
     [sid |-> 2500,
      path |-> <<
        47, 105, 101, 101, 101, 56, 48, 50, 45, 100, 111, 116, 49, 113, 45,
        115, 99, 104, 101, 100, 45, 98, 114, 105, 100, 103, 101, 58, 103,
        97, 116, 101, 45, 112, 97, 114, 97, 109, 101, 116, 101, 114, 45,
        116, 97, 98, 108, 101>>],
     \* '/ieee802-dot1q-sched-bridge:gate-parameter-table/gate-enabled'
     [sid |-> 2501,
      path |-> <<
        47, 105, 101, 101, 101, 56, 48, 50, 45, 100, 111, 116, 49, 113, 45,
        115, 99, 104, 101, 100, 45, 98, 114, 105, 100, 103, 101, 58, 103,
        97, 116, 101, 45, 112, 97, 114, 97, 109, 101, 116, 101, 114, 45,
        116, 97, 98, 108, 101, 47, 103, 97, 116, 101, 45, 101, 110, 97, 98,
        108, 101, 100>>],
     \* '/ieee802-dot1q-sched-bridge:gate-parameter-table/admin-gate-states'
     [sid |-> 2502,
      path |-> <<
        47, 105, 101, 101, 101, 56, 48, 50, 45, 100, 111, 116, 49, 113, 45,
        115, 99, 104, 101, 100, 45, 98, 114, 105, 100, 103, 101, 58, 103,
        97, 116, 101, 45, 112, 97, 114, 97, 109, 101, 116, 101, 114, 45,
        116, 97, 98, 108, 101, 47, 97, 100, 109, 105, 110, 45, 103, 97, 116,
        101, 45, 115, 116, 97, 116, 101, 115>>],
     \* '/ieee802-dot1q-sched-bridge:gate-parameter-table/oper-gate-states'
     [sid |-> 2503,
      path |-> <<
        47, 105, 101, 101, 101, 56, 48, 50, 45, 100, 111, 116, 49, 113, 45,
        115, 99, 104, 101, 100, 45, 98, 114, 105, 100, 103, 101, 58, 103,
        97, 116, 101, 45, 112, 97, 114, 97, 109, 101, 116, 101, 114, 45,
        116, 97, 98, 108, 101, 47, 111, 112, 101, 114, 45, 103, 97, 116,
        101, 45, 115, 116, 97, 116, 101, 115>>],
     \* '/ieee802-dot1q-sched-bridge:gate-parameter-table/admin-control-list'
     [sid |-> 2504,
      path |-> <<
        47, 105, 101, 101, 101, 56, 48, 50, 45, 100, 111, 116, 49, 113, 45,
        115, 99, 104, 101, 100, 45, 98, 114, 105, 100, 103, 101, 58, 103,
        97, 116, 101, 45, 112, 97, 114, 97, 109, 101, 116, 101, 114, 45,
        116, 97, 98, 108, 101, 47, 97, 100, 109, 105, 110, 45, 99, 111, 110,
        116, 114, 111, 108, 45, 108, 105, 115, 116>>],
     \* '/ieee802-dot1q-sched-bridge:gate-parameter-table/admin-control-list/gate-control-entry'
     [sid |-> 2505,
      path |-> <<
        47, 105, 101, 101, 101, 56, 48, 50, 45, 100, 111, 116, 49, 113, 45,
        115, 99, 104, 101, 100, 45, 98, 114, 105, 100, 103, 101, 58, 103,
        97, 116, 101, 45, 112, 97, 114, 97, 109, 101, 116, 101, 114, 45,
        116, 97, 98, 108, 101, 47, 97, 100, 109, 105, 110, 45, 99, 111, 110,
        116, 114, 111, 108, 45, 108, 105, 115, 116, 47, 103, 97, 116, 101,
        45, 99, 111, 110, 116, 114, 111, 108, 45, 101, 110, 116, 114, 121>>],
     \* '/ieee802-dot1q-sched-bridge:gate-parameter-table/admin-control-list/gate-control-entry/index'
     [sid |-> 2506,
      path |-> <<
        47, 105, 101, 101, 101, 56, 48, 50, 45, 100, 111, 116, 49, 113, 45,
        115, 99, 104, 101, 100, 45, 98, 114, 105, 100, 103, 101, 58, 103,
        97, 116, 101, 45, 112, 97, 114, 97, 109, 101, 116, 101, 114, 45,
        116, 97, 98, 108, 101, 47, 97, 100, 109, 105, 110, 45, 99, 111, 110,
        116, 114, 111, 108, 45, 108, 105, 115, 116, 47, 103, 97, 116, 101,
        45, 99, 111, 110, 116, 114, 111, 108, 45, 101, 110, 116, 114, 121,
        47, 105, 110, 100, 101, 120>>],
     \* '/ieee802-dot1q-sched-bridge:gate-parameter-table/admin-control-list/gate-control-entry/operation-name'
     [sid |-> 2507,
      path |-> <<
        47, 105, 101, 101, 101, 56, 48, 50, 45, 100, 111, 116, 49, 113, 45,
        115, 99, 104, 101, 100, 45, 98, 114, 105, 100, 103, 101, 58, 103,
        97, 116, 101, 45, 112, 97, 114, 97, 109, 101, 116, 101, 114, 45,
        116, 97, 98, 108, 101, 47, 97, 100, 109, 105, 110, 45, 99, 111, 110,
        116, 114, 111, 108, 45, 108, 105, 115, 116, 47, 103, 97, 116, 101,
        45, 99, 111, 110, 116, 114, 111, 108, 45, 101, 110, 116, 114, 121,
        47, 111, 112, 101, 114, 97, 116, 105, 111, 110, 45, 110, 97, 109,
        101>>],
     \* '/ieee802-dot1q-sched-bridge:gate-parameter-table/admin-control-list/gate-control-entry/time-interval-value'
     [sid |-> 2508,
      path |-> <<
        47, 105, 101, 101, 101, 56, 48, 50, 45, 100, 111, 116, 49, 113, 45,
        115, 99, 104, 101, 100, 45, 98, 114, 105, 100, 103, 101, 58, 103,
        97, 116, 101, 45, 112, 97, 114, 97, 109, 101, 116, 101, 114, 45,
        116, 97, 98, 108, 101, 47, 97, 100, 109, 105, 110, 45, 99, 111, 110,
        116, 114, 111, 108, 45, 108, 105, 115, 116, 47, 103, 97, 116, 101,
        45, 99, 111, 110, 116, 114, 111, 108, 45, 101, 110, 116, 114, 121,
        47, 116, 105, 109, 101, 45, 105, 110, 116, 101, 114, 118, 97, 108,
        45, 118, 97, 108, 117, 101>>],
     \* '/ieee802-dot1q-sched-bridge:gate-parameter-table/admin-control-list/gate-control-entry/gate-states-value'
     [sid |-> 2509,
      path |-> <<
        47, 105, 101, 101, 101, 56, 48, 50, 45, 100, 111, 116, 49, 113, 45,
        115, 99, 104, 101, 100, 45, 98, 114, 105, 100, 103, 101, 58, 103,
        97, 116, 101, 45, 112, 97, 114, 97, 109, 101, 116, 101, 114, 45,
        116, 97, 98, 108, 101, 47, 97, 100, 109, 105, 110, 45, 99, 111, 110,
        116, 114, 111, 108, 45, 108, 105, 115, 116, 47, 103, 97, 116, 101,
        45, 99, 111, 110, 116, 114, 111, 108, 45, 101, 110, 116, 114, 121,
        47, 103, 97, 116, 101, 45, 115, 116, 97, 116, 101, 115, 45, 118, 97,
        108, 117, 101>>],
     \* '/ieee802-dot1q-sched-bridge:gate-parameter-table/admin-cycle-time'
     [sid |-> 2510,
      path |-> <<
        47, 105, 101, 101, 101, 56, 48, 50, 45, 100, 111, 116, 49, 113, 45,
        115, 99, 104, 101, 100, 45, 98, 114, 105, 100, 103, 101, 58, 103,
        97, 116, 101, 45, 112, 97, 114, 97, 109, 101, 116, 101, 114, 45,
        116, 97, 98, 108, 101, 47, 97, 100, 109, 105, 110, 45, 99, 121, 99,
        108, 101, 45, 116, 105, 109, 101>>],
     \* '/ieee802-dot1q-sched-bridge:gate-parameter-table/admin-cycle-time/numerator'
     [sid |-> 2511,
      path |-> <<
        47, 105, 101, 101, 101, 56, 48, 50, 45, 100, 111, 116, 49, 113, 45,
        115, 99, 104, 101, 100, 45, 98, 114, 105, 100, 103, 101, 58, 103,
        97, 116, 101, 45, 112, 97, 114, 97, 109, 101, 116, 101, 114, 45,
        116, 97, 98, 108, 101, 47, 97, 100, 109, 105, 110, 45, 99, 121, 99,
        108, 101, 45, 116, 105, 109, 101, 47, 110, 117, 109, 101, 114, 97,
        116, 111, 114>>],
     \* '/ieee802-dot1q-sched-bridge:gate-parameter-table/admin-cycle-time/denominator'
     [sid |-> 2512,
      path |-> <<
        47, 105, 101, 101, 101, 56, 48, 50, 45, 100, 111, 116, 49, 113, 45,
        115, 99, 104, 101, 100, 45, 98, 114, 105, 100, 103, 101, 58, 103,
        97, 116, 101, 45, 112, 97, 114, 97, 109, 101, 116, 101, 114, 45,
        116, 97, 98, 108, 101, 47, 97, 100, 109, 105, 110, 45, 99, 121, 99,
        108, 101, 45, 116, 105, 109, 101, 47, 100, 101, 110, 111, 109, 105,
        110, 97, 116, 111, 114>>],
     \* '/ieee802-dot1q-sched-bridge:gate-parameter-table/admin-base-time'
     [sid |-> 2513,
      path |-> <<
        47, 105, 101, 101, 101, 56, 48, 50, 45, 100, 111, 116, 49, 113, 45,
        115, 99, 104, 101, 100, 45, 98, 114, 105, 100, 103, 101, 58, 103,
        97, 116, 101, 45, 112, 97, 114, 97, 109, 101, 116, 101, 114, 45,
        116, 97, 98, 108, 101, 47, 97, 100, 109, 105, 110, 45, 98, 97, 115,
        101, 45, 116, 105, 109, 101>>],
     \* '/ieee802-dot1q-sched-bridge:gate-parameter-table/admin-base-time/seconds'
     [sid |-> 2514,
      path |-> <<
        47, 105, 101, 101, 101, 56, 48, 50, 45, 100, 111, 116, 49, 113, 45,
        115, 99, 104, 101, 100, 45, 98, 114, 105, 100, 103, 101, 58, 103,
        97, 116, 101, 45, 112, 97, 114, 97, 109, 101, 116, 101, 114, 45,
        116, 97, 98, 108, 101, 47, 97, 100, 109, 105, 110, 45, 98, 97, 115,
        101, 45, 116, 105, 109, 101, 47, 115, 101, 99, 111, 110, 100, 115>>],
     \* '/ieee802-dot1q-sched-bridge:gate-parameter-table/admin-base-time/nanoseconds'
     [sid |-> 2515,
      path |-> <<
        47, 105, 101, 101, 101, 56, 48, 50, 45, 100, 111, 116, 49, 113, 45,
        115, 99, 104, 101, 100, 45, 98, 114, 105, 100, 103, 101, 58, 103,
        97, 116, 101, 45, 112, 97, 114, 97, 109, 101, 116, 101, 114, 45,
        116, 97, 98, 108, 101, 47, 97, 100, 109, 105, 110, 45, 98, 97, 115,
        101, 45, 116, 105, 109, 101, 47, 110, 97, 110, 111, 115, 101, 99,
        111, 110, 100, 115>>],
     \* '/ieee802-dot1q-sched-bridge:gate-parameter-table/config-change'
     [sid |-> 2516,
      path |-> <<
        47, 105, 101, 101, 101, 56, 48, 50, 45, 100, 111, 116, 49, 113, 45,
        115, 99, 104, 101, 100, 45, 98, 114, 105, 100, 103, 101, 58, 103,
        97, 116, 101, 45, 112, 97, 114, 97, 109, 101, 116, 101, 114, 45,
        116, 97, 98, 108, 101, 47, 99, 111, 110, 102, 105, 103, 45, 99, 104,
        97, 110, 103, 101>>],
     \* '/ieee802-dot1q-sched-bridge:gate-parameter-table/config-pending'
     [sid |-> 2517,
      path |-> <<
        47, 105, 101, 101, 101, 56, 48, 50, 45, 100, 111, 116, 49, 113, 45,
        115, 99, 104, 101, 100, 45, 98, 114, 105, 100, 103, 101, 58, 103,
        97, 116, 101, 45, 112, 97, 114, 97, 109, 101, 116, 101, 114, 45,
        116, 97, 98, 108, 101, 47, 99, 111, 110, 102, 105, 103, 45, 112,
        101, 110, 100, 105, 110, 103>>],
     \* '/ieee802-dot1q-sched-bridge:gate-parameter-table/config-change-time'
     [sid |-> 2518,
      path |-> <<
        47, 105, 101, 101, 101, 56, 48, 50, 45, 100, 111, 116, 49, 113, 45,
        115, 99, 104, 101, 100, 45, 98, 114, 105, 100, 103, 101, 58, 103,
        97, 116, 101, 45, 112, 97, 114, 97, 109, 101, 116, 101, 114, 45,
        116, 97, 98, 108, 101, 47, 99, 111, 110, 102, 105, 103, 45, 99, 104,
        97, 110, 103, 101, 45, 116, 105, 109, 101>>],
     \* '/ieee802-dot1q-sched-bridge:gate-parameter-table/tick-granularity'
     [sid |-> 2519,
      path |-> <<
        47, 105, 101, 101, 101, 56, 48, 50, 45, 100, 111, 116, 49, 113, 45,
        115, 99, 104, 101, 100, 45, 98, 114, 105, 100, 103, 101, 58, 103,
        97, 116, 101, 45, 112, 97, 114, 97, 109, 101, 116, 101, 114, 45,
        116, 97, 98, 108, 101, 47, 116, 105, 99, 107, 45, 103, 114, 97, 110,
        117, 108, 97, 114, 105, 116, 121>>],
     \* '/ieee802-dot1q-sched-bridge:gate-parameter-table/current-time'
     [sid |-> 2520,
      path |-> <<
        47, 105, 101, 101, 101, 56, 48, 50, 45, 100, 111, 116, 49, 113, 45,
        115, 99, 104, 101, 100, 45, 98, 114, 105, 100, 103, 101, 58, 103,
        97, 116, 101, 45, 112, 97, 114, 97, 109, 101, 116, 101, 114, 45,
        116, 97, 98, 108, 101, 47, 99, 117, 114, 114, 101, 110, 116, 45,
        116, 105, 109, 101>>],
     \* '/ieee802-dot1q-sched-bridge:gate-parameter-table/oper-control-list'
     [sid |-> 2521,
      path |-> <<
        47, 105, 101, 101, 101, 56, 48, 50, 45, 100, 111, 116, 49, 113, 45,
        115, 99, 104, 101, 100, 45, 98, 114, 105, 100, 103, 101, 58, 103,
        97, 116, 101, 45, 112, 97, 114, 97, 109, 101, 116, 101, 114, 45,
        116, 97, 98, 108, 101, 47, 111, 112, 101, 114, 45, 99, 111, 110,
        116, 114, 111, 108, 45, 108, 105, 115, 116>>],
     \* '/ieee802-dot1q-sched-bridge:gate-parameter-table/oper-cycle-time'
     [sid |-> 2522,
      path |-> <<
        47, 105, 101, 101, 101, 56, 48, 50, 45, 100, 111, 116, 49, 113, 45,
        115, 99, 104, 101, 100, 45, 98, 114, 105, 100, 103, 101, 58, 103,
        97, 116, 101, 45, 112, 97, 114, 97, 109, 101, 116, 101, 114, 45,
        116, 97, 98, 108, 101, 47, 111, 112, 101, 114, 45, 99, 121, 99, 108,
        101, 45, 116, 105, 109, 101>>],
     \* '/ieee802-dot1q-sched-bridge:gate-parameter-table/oper-base-time'
     [sid |-> 2523,
      path |-> <<
        47, 105, 101, 101, 101, 56, 48, 50, 45, 100, 111, 116, 49, 113, 45,
        115, 99, 104, 101, 100, 45, 98, 114, 105, 100, 103, 101, 58, 103,
        97, 116, 101, 45, 112, 97, 114, 97, 109, 101, 116, 101, 114, 45,
        116, 97, 98, 108, 101, 47, 111, 112, 101, 114, 45, 98, 97, 115, 101,
        45, 116, 105, 109, 101>>],
     \* '/ieee1588-ptp:ptp'
     [sid |-> 3000,
      path |-> <<
        47, 105, 101, 101, 101, 49, 53, 56, 56, 45, 112, 116, 112, 58, 112,
        116, 112>>],
     \* '/ieee1588-ptp:ptp/instances'
     [sid |-> 3001,
      path |-> <<
        47, 105, 101, 101, 101, 49, 53, 56, 56, 45, 112, 116, 112, 58, 112,
        116, 112, 47, 105, 110, 115, 116, 97, 110, 99, 101, 115>>],
     \* '/ieee1588-ptp:ptp/instances/instance'
     [sid |-> 3002,
      path |-> <<
        47, 105, 101, 101, 101, 49, 53, 56, 56, 45, 112, 116, 112, 58, 112,
        116, 112, 47, 105, 110, 115, 116, 97, 110, 99, 101, 115, 47, 105,
        110, 115, 116, 97, 110, 99, 101>>],
     \* '/ieee1588-ptp:ptp/instances/instance/instance-index'
     [sid |-> 3003,
      path |-> <<
        47, 105, 101, 101, 101, 49, 53, 56, 56, 45, 112, 116, 112, 58, 112,
        116, 112, 47, 105, 110, 115, 116, 97, 110, 99, 101, 115, 47, 105,
        110, 115, 116, 97, 110, 99, 101, 47, 105, 110, 115, 116, 97, 110,
        99, 101, 45, 105, 110, 100, 101, 120>>],
     \* '/ieee1588-ptp:ptp/instances/instance/default-ds'
     [sid |-> 3004,
      path |-> <<
        47, 105, 101, 101, 101, 49, 53, 56, 56, 45, 112, 116, 112, 58, 112,
        116, 112, 47, 105, 110, 115, 116, 97, 110, 99, 101, 115, 47, 105,
        110, 115, 116, 97, 110, 99, 101, 47, 100, 101, 102, 97, 117, 108,
        116, 45, 100, 115>>],
     \* '/ieee1588-ptp:ptp/instances/instance/default-ds/clock-identity'
     [sid |-> 3005,
      path |-> <<
        47, 105, 101, 101, 101, 49, 53, 56, 56, 45, 112, 116, 112, 58, 112,
        116, 112, 47, 105, 110, 115, 116, 97, 110, 99, 101, 115, 47, 105,
        110, 115, 116, 97, 110, 99, 101, 47, 100, 101, 102, 97, 117, 108,
        116, 45, 100, 115, 47, 99, 108, 111, 99, 107, 45, 105, 100, 101,
        110, 116, 105, 116, 121>>],
     \* '/ieee1588-ptp:ptp/instances/instance/default-ds/number-ports'
     [sid |-> 3006,
      path |-> <<
        47, 105, 101, 101, 101, 49, 53, 56, 56, 45, 112, 116, 112, 58, 112,
        116, 112, 47, 105, 110, 115, 116, 97, 110, 99, 101, 115, 47, 105,
        110, 115, 116, 97, 110, 99, 101, 47, 100, 101, 102, 97, 117, 108,
        116, 45, 100, 115, 47, 110, 117, 109, 98, 101, 114, 45, 112, 111,
        114, 116, 115>>],
     \* '/ieee1588-ptp:ptp/instances/instance/default-ds/clock-quality'
     [sid |-> 3007,
      path |-> <<
        47, 105, 101, 101, 101, 49, 53, 56, 56, 45, 112, 116, 112, 58, 112,
        116, 112, 47, 105, 110, 115, 116, 97, 110, 99, 101, 115, 47, 105,
        110, 115, 116, 97, 110, 99, 101, 47, 100, 101, 102, 97, 117, 108,
        116, 45, 100, 115, 47, 99, 108, 111, 99, 107, 45, 113, 117, 97, 108,
        105, 116, 121>>],
     \* '/ieee1588-ptp:ptp/instances/instance/default-ds/priority1'
     [sid |-> 3008,
      path |-> <<
        47, 105, 101, 101, 101, 49, 53, 56, 56, 45, 112, 116, 112, 58, 112,
        116, 112, 47, 105, 110, 115, 116, 97, 110, 99, 101, 115, 47, 105,
        110, 115, 116, 97, 110, 99, 101, 47, 100, 101, 102, 97, 117, 108,
        116, 45, 100, 115, 47, 112, 114, 105, 111, 114, 105, 116, 121, 49>>],
     \* '/ieee1588-ptp:ptp/instances/instance/default-ds/priority2'
     [sid |-> 3009,
      path |-> <<
        47, 105, 101, 101, 101, 49, 53, 56, 56, 45, 112, 116, 112, 58, 112,
        116, 112, 47, 105, 110, 115, 116, 97, 110, 99, 101, 115, 47, 105,
        110, 115, 116, 97, 110, 99, 101, 47, 100, 101, 102, 97, 117, 108,
        116, 45, 100, 115, 47, 112, 114, 105, 111, 114, 105, 116, 121, 50>>],
     \* '/ieee1588-ptp:ptp/instances/instance/default-ds/domain-number'
     [sid |-> 3010,
      path |-> <<
        47, 105, 101, 101, 101, 49, 53, 56, 56, 45, 112, 116, 112, 58, 112,
        116, 112, 47, 105, 110, 115, 116, 97, 110, 99, 101, 115, 47, 105,
        110, 115, 116, 97, 110, 99, 101, 47, 100, 101, 102, 97, 117, 108,
        116, 45, 100, 115, 47, 100, 111, 109, 97, 105, 110, 45, 110, 117,
        109, 98, 101, 114>>],
     \* '/ieee1588-ptp:ptp/instances/instance/default-ds/external-port-config-enable'
     [sid |-> 3011,
      path |-> <<
        47, 105, 101, 101, 101, 49, 53, 56, 56, 45, 112, 116, 112, 58, 112,
        116, 112, 47, 105, 110, 115, 116, 97, 110, 99, 101, 115, 47, 105,
        110, 115, 116, 97, 110, 99, 101, 47, 100, 101, 102, 97, 117, 108,
        116, 45, 100, 115, 47, 101, 120, 116, 101, 114, 110, 97, 108, 45,
        112, 111, 114, 116, 45, 99, 111, 110, 102, 105, 103, 45, 101, 110,
        97, 98, 108, 101>>],
     \* '/ieee1588-ptp:ptp/instances/instance/current-ds'
     [sid |-> 3012,
      path |-> <<
        47, 105, 101, 101, 101, 49, 53, 56, 56, 45, 112, 116, 112, 58, 112,
        116, 112, 47, 105, 110, 115, 116, 97, 110, 99, 101, 115, 47, 105,
        110, 115, 116, 97, 110, 99, 101, 47, 99, 117, 114, 114, 101, 110,
        116, 45, 100, 115>>],
     \* '/ieee1588-ptp:ptp/instances/instance/current-ds/steps-removed'
     [sid |-> 3013,
      path |-> <<
        47, 105, 101, 101, 101, 49, 53, 56, 56, 45, 112, 116, 112, 58, 112,
        116, 112, 47, 105, 110, 115, 116, 97, 110, 99, 101, 115, 47, 105,
        110, 115, 116, 97, 110, 99, 101, 47, 99, 117, 114, 114, 101, 110,
        116, 45, 100, 115, 47, 115, 116, 101, 112, 115, 45, 114, 101, 109,
        111, 118, 101, 100>>],
     \* '/ieee1588-ptp:ptp/instances/instance/current-ds/offset-from-master'
     [sid |-> 3014,
      path |-> <<
        47, 105, 101, 101, 101, 49, 53, 56, 56, 45, 112, 116, 112, 58, 112,
        116, 112, 47, 105, 110, 115, 116, 97, 110, 99, 101, 115, 47, 105,
        110, 115, 116, 97, 110, 99, 101, 47, 99, 117, 114, 114, 101, 110,
        116, 45, 100, 115, 47, 111, 102, 102, 115, 101, 116, 45, 102, 114,
        111, 109, 45, 109, 97, 115, 116, 101, 114>>],
     \* '/ieee1588-ptp:ptp/instances/instance/current-ds/mean-path-delay'
     [sid |-> 3015,
      path |-> <<
        47, 105, 101, 101, 101, 49, 53, 56, 56, 45, 112, 116, 112, 58, 112,
        116, 112, 47, 105, 110, 115, 116, 97, 110, 99, 101, 115, 47, 105,
        110, 115, 116, 97, 110, 99, 101, 47, 99, 117, 114, 114, 101, 110,
        116, 45, 100, 115, 47, 109, 101, 97, 110, 45, 112, 97, 116, 104, 45,
        100, 101, 108, 97, 121>>],
     \* '/ieee1588-ptp:ptp/instances/instance/parent-ds'
     [sid |-> 3016,
      path |-> <<
        47, 105, 101, 101, 101, 49, 53, 56, 56, 45, 112, 116, 112, 58, 112,
        116, 112, 47, 105, 110, 115, 116, 97, 110, 99, 101, 115, 47, 105,
        110, 115, 116, 97, 110, 99, 101, 47, 112, 97, 114, 101, 110, 116,
        45, 100, 115>>],
     \* '/ieee1588-ptp:ptp/instances/instance/time-properties-ds'
     [sid |-> 3017,
      path |-> <<
        47, 105, 101, 101, 101, 49, 53, 56, 56, 45, 112, 116, 112, 58, 112,
        116, 112, 47, 105, 110, 115, 116, 97, 110, 99, 101, 115, 47, 105,
        110, 115, 116, 97, 110, 99, 101, 47, 116, 105, 109, 101, 45, 112,
        114, 111, 112, 101, 114, 116, 105, 101, 115, 45, 100, 115>>],
     \* '/ieee1588-ptp:ptp/instances/instance/ports'
     [sid |-> 3018,
      path |-> <<
        47, 105, 101, 101, 101, 49, 53, 56, 56, 45, 112, 116, 112, 58, 112,
        116, 112, 47, 105, 110, 115, 116, 97, 110, 99, 101, 115, 47, 105,
        110, 115, 116, 97, 110, 99, 101, 47, 112, 111, 114, 116, 115>>],
     \* '/ieee1588-ptp:ptp/instances/instance/ports/port'
     [sid |-> 3019,
      path |-> <<
        47, 105, 101, 101, 101, 49, 53, 56, 56, 45, 112, 116, 112, 58, 112,
        116, 112, 47, 105, 110, 115, 116, 97, 110, 99, 101, 115, 47, 105,
        110, 115, 116, 97, 110, 99, 101, 47, 112, 111, 114, 116, 115, 47,
        112, 111, 114, 116>>],
     \* '/ieee1588-ptp:ptp/instances/instance/ports/port/port-index'
     [sid |-> 3020,
      path |-> <<
        47, 105, 101, 101, 101, 49, 53, 56, 56, 45, 112, 116, 112, 58, 112,
        116, 112, 47, 105, 110, 115, 116, 97, 110, 99, 101, 115, 47, 105,
        110, 115, 116, 97, 110, 99, 101, 47, 112, 111, 114, 116, 115, 47,
        112, 111, 114, 116, 47, 112, 111, 114, 116, 45, 105, 110, 100, 101,
        120>>],
     \* '/ieee1588-ptp:ptp/instances/instance/ports/port/port-ds'
     [sid |-> 3021,
      path |-> <<
        47, 105, 101, 101, 101, 49, 53, 56, 56, 45, 112, 116, 112, 58, 112,
        116, 112, 47, 105, 110, 115, 116, 97, 110, 99, 101, 115, 47, 105,
        110, 115, 116, 97, 110, 99, 101, 47, 112, 111, 114, 116, 115, 47,
        112, 111, 114, 116, 47, 112, 111, 114, 116, 45, 100, 115>>],
     \* '/ieee1588-ptp:ptp/instances/instance/ports/port/external-port-config-port-ds'
     [sid |-> 3022,
      path |-> <<
        47, 105, 101, 101, 101, 49, 53, 56, 56, 45, 112, 116, 112, 58, 112,
        116, 112, 47, 105, 110, 115, 116, 97, 110, 99, 101, 115, 47, 105,
        110, 115, 116, 97, 110, 99, 101, 47, 112, 111, 114, 116, 115, 47,
        112, 111, 114, 116, 47, 101, 120, 116, 101, 114, 110, 97, 108, 45,
        112, 111, 114, 116, 45, 99, 111, 110, 102, 105, 103, 45, 112, 111,
        114, 116, 45, 100, 115>>],
     \* '/ieee1588-ptp:ptp/instances/instance/ports/port/external-port-config-port-ds/desired-state'
     [sid |-> 3023,
      path |-> <<
        47, 105, 101, 101, 101, 49, 53, 56, 56, 45, 112, 116, 112, 58, 112,
        116, 112, 47, 105, 110, 115, 116, 97, 110, 99, 101, 115, 47, 105,
        110, 115, 116, 97, 110, 99, 101, 47, 112, 111, 114, 116, 115, 47,
        112, 111, 114, 116, 47, 101, 120, 116, 101, 114, 110, 97, 108, 45,
        112, 111, 114, 116, 45, 99, 111, 110, 102, 105, 103, 45, 112, 111,
        114, 116, 45, 100, 115, 47, 100, 101, 115, 105, 114, 101, 100, 45,
        115, 116, 97, 116, 101>>],
     \* '/mchp-velocitysp-port:eth-port'
     [sid |-> 4000,
      path |-> <<
        47, 109, 99, 104, 112, 45, 118, 101, 108, 111, 99, 105, 116, 121,
        115, 112, 45, 112, 111, 114, 116, 58, 101, 116, 104, 45, 112, 111,
        114, 116>>],
     \* '/mchp-velocitysp-port:eth-port/config'
     [sid |-> 4001,
      path |-> <<
        47, 109, 99, 104, 112, 45, 118, 101, 108, 111, 99, 105, 116, 121,
        115, 112, 45, 112, 111, 114, 116, 58, 101, 116, 104, 45, 112, 111,
        114, 116, 47, 99, 111, 110, 102, 105, 103>>],
     \* '/mchp-velocitysp-port:eth-port/config/speed'
     [sid |-> 4002,
      path |-> <<
        47, 109, 99, 104, 112, 45, 118, 101, 108, 111, 99, 105, 116, 121,
        115, 112, 45, 112, 111, 114, 116, 58, 101, 116, 104, 45, 112, 111,
        114, 116, 47, 99, 111, 110, 102, 105, 103, 47, 115, 112, 101, 101,
        100>>],
     \* '/mchp-velocitysp-port:eth-port/config/duplex'
     [sid |-> 4003,
      path |-> <<
        47, 109, 99, 104, 112, 45, 118, 101, 108, 111, 99, 105, 116, 121,
        115, 112, 45, 112, 111, 114, 116, 58, 101, 116, 104, 45, 112, 111,
        114, 116, 47, 99, 111, 110, 102, 105, 103, 47, 100, 117, 112, 108,
        101, 120>>],
     \* '/mchp-velocitysp-port:eth-port/config/flow-control'
     [sid |-> 4004,
      path |-> <<
        47, 109, 99, 104, 112, 45, 118, 101, 108, 111, 99, 105, 116, 121,
        115, 112, 45, 112, 111, 114, 116, 58, 101, 116, 104, 45, 112, 111,
        114, 116, 47, 99, 111, 110, 102, 105, 103, 47, 102, 108, 111, 119,
        45, 99, 111, 110, 116, 114, 111, 108>>],
     \* '/mchp-velocitysp-port:eth-qos'
     [sid |-> 4010,
      path |-> <<
        47, 109, 99, 104, 112, 45, 118, 101, 108, 111, 99, 105, 116, 121,
        115, 112, 45, 112, 111, 114, 116, 58, 101, 116, 104, 45, 113, 111,
        115>>],
     \* '/mchp-velocitysp-port:eth-qos/config'
     [sid |-> 4011,
      path |-> <<
        47, 109, 99, 104, 112, 45, 118, 101, 108, 111, 99, 105, 116, 121,
        115, 112, 45, 112, 111, 114, 116, 58, 101, 116, 104, 45, 113, 111,
        115, 47, 99, 111, 110, 102, 105, 103>>],
     \* '/mchp-velocitysp-port:eth-qos/config/traffic-class-shapers'
     [sid |-> 4012,
      path |-> <<
        47, 109, 99, 104, 112, 45, 118, 101, 108, 111, 99, 105, 116, 121,
        115, 112, 45, 112, 111, 114, 116, 58, 101, 116, 104, 45, 113, 111,
        115, 47, 99, 111, 110, 102, 105, 103, 47, 116, 114, 97, 102, 102,
        105, 99, 45, 99, 108, 97, 115, 115, 45, 115, 104, 97, 112, 101, 114,
        115>>],
     \* '/mchp-velocitysp-port:eth-qos/config/traffic-class-shapers/traffic-class'
     [sid |-> 4013,
      path |-> <<
        47, 109, 99, 104, 112, 45, 118, 101, 108, 111, 99, 105, 116, 121,
        115, 112, 45, 112, 111, 114, 116, 58, 101, 116, 104, 45, 113, 111,
        115, 47, 99, 111, 110, 102, 105, 103, 47, 116, 114, 97, 102, 102,
        105, 99, 45, 99, 108, 97, 115, 115, 45, 115, 104, 97, 112, 101, 114,
        115, 47, 116, 114, 97, 102, 102, 105, 99, 45, 99, 108, 97, 115, 115>>],
     \* '/mchp-velocitysp-port:eth-qos/config/traffic-class-shapers/credit-based'
     [sid |-> 4014,
      path |-> <<
        47, 109, 99, 104, 112, 45, 118, 101, 108, 111, 99, 105, 116, 121,
        115, 112, 45, 112, 111, 114, 116, 58, 101, 116, 104, 45, 113, 111,
        115, 47, 99, 111, 110, 102, 105, 103, 47, 116, 114, 97, 102, 102,
        105, 99, 45, 99, 108, 97, 115, 115, 45, 115, 104, 97, 112, 101, 114,
        115, 47, 99, 114, 101, 100, 105, 116, 45, 98, 97, 115, 101, 100>>],
     \* '/mchp-velocitysp-port:eth-qos/config/traffic-class-shapers/credit-based/idle-slope'
     [sid |-> 4015,
      path |-> <<
        47, 109, 99, 104, 112, 45, 118, 101, 108, 111, 99, 105, 116, 121,
        115, 112, 45, 112, 111, 114, 116, 58, 101, 116, 104, 45, 113, 111,
        115, 47, 99, 111, 110, 102, 105, 103, 47, 116, 114, 97, 102, 102,
        105, 99, 45, 99, 108, 97, 115, 115, 45, 115, 104, 97, 112, 101, 114,
        115, 47, 99, 114, 101, 100, 105, 116, 45, 98, 97, 115, 101, 100, 47,
        105, 100, 108, 101, 45, 115, 108, 111, 112, 101>>],
     \* '/mchp-velocitysp-ptp:automotive'
     [sid |-> 4100,
      path |-> <<
        47, 109, 99, 104, 112, 45, 118, 101, 108, 111, 99, 105, 116, 121,
        115, 112, 45, 112, 116, 112, 58, 97, 117, 116, 111, 109, 111, 116,
        105, 118, 101>>],
     \* '/mchp-velocitysp-ptp:automotive/profile'
     [sid |-> 4101,
      path |-> <<
        47, 109, 99, 104, 112, 45, 118, 101, 108, 111, 99, 105, 116, 121,
        115, 112, 45, 112, 116, 112, 58, 97, 117, 116, 111, 109, 111, 116,
        105, 118, 101, 47, 112, 114, 111, 102, 105, 108, 101>>],
     \* '/mchp-velocitysp-system:save-config'
     [sid |-> 4200,
      path |-> <<
        47, 109, 99, 104, 112, 45, 118, 101, 108, 111, 99, 105, 116, 121,
        115, 112, 45, 115, 121, 115, 116, 101, 109, 58, 115, 97, 118, 101,
        45, 99, 111, 110, 102, 105, 103>>],
     \* '/mchp-velocitysp-system:reset'
     [sid |-> 4201,
      path |-> <<
        47, 109, 99, 104, 112, 45, 118, 101, 108, 111, 99, 105, 116, 121,
        115, 112, 45, 115, 121, 115, 116, 101, 109, 58, 114, 101, 115, 101,
        116>>],
     \* '/mchp-velocitysp-system:firmware-upgrade'
     [sid |-> 4202,
      path |-> <<
        47, 109, 99, 104, 112, 45, 118, 101, 108, 111, 99, 105, 116, 121,
        115, 112, 45, 115, 121, 115, 116, 101, 109, 58, 102, 105, 114, 109,
        119, 97, 114, 101, 45, 117, 112, 103, 114, 97, 100, 101>>],
     \* '/ietf-constrained-yang-library:yang-library'
     [sid |-> 29300,
      path |-> <<
        47, 105, 101, 116, 102, 45, 99, 111, 110, 115, 116, 114, 97, 105,
        110, 101, 100, 45, 121, 97, 110, 103, 45, 108, 105, 98, 114, 97,
        114, 121, 58, 121, 97, 110, 103, 45, 108, 105, 98, 114, 97, 114, 121>>],
     \* '/ietf-constrained-yang-library:yang-library/module-set'
     [sid |-> 29301,
      path |-> <<
        47, 105, 101, 116, 102, 45, 99, 111, 110, 115, 116, 114, 97, 105,
        110, 101, 100, 45, 121, 97, 110, 103, 45, 108, 105, 98, 114, 97,
        114, 121, 58, 121, 97, 110, 103, 45, 108, 105, 98, 114, 97, 114,
        121, 47, 109, 111, 100, 117, 108, 101, 45, 115, 101, 116>>],
     \* '/ietf-constrained-yang-library:yang-library/module-set/name'
     [sid |-> 29302,
      path |-> <<
        47, 105, 101, 116, 102, 45, 99, 111, 110, 115, 116, 114, 97, 105,
        110, 101, 100, 45, 121, 97, 110, 103, 45, 108, 105, 98, 114, 97,
        114, 121, 58, 121, 97, 110, 103, 45, 108, 105, 98, 114, 97, 114,
        121, 47, 109, 111, 100, 117, 108, 101, 45, 115, 101, 116, 47, 110,
        97, 109, 101>>],
     \* '/ietf-constrained-yang-library:yang-library/module-set/module'
     [sid |-> 29303,
      path |-> <<
        47, 105, 101, 116, 102, 45, 99, 111, 110, 115, 116, 114, 97, 105,
        110, 101, 100, 45, 121, 97, 110, 103, 45, 108, 105, 98, 114, 97,
        114, 121, 58, 121, 97, 110, 103, 45, 108, 105, 98, 114, 97, 114,
        121, 47, 109, 111, 100, 117, 108, 101, 45, 115, 101, 116, 47, 109,
        111, 100, 117, 108, 101>>],
     \* '/ietf-constrained-yang-library:yang-library/checksum'
     [sid |-> 29304,
      path |-> <<
        47, 105, 101, 116, 102, 45, 99, 111, 110, 115, 116, 114, 97, 105,
        110, 101, 100, 45, 121, 97, 110, 103, 45, 108, 105, 98, 114, 97,
        114, 121, 58, 121, 97, 110, 103, 45, 108, 105, 98, 114, 97, 114,
        121, 47, 99, 104, 101, 99, 107, 115, 117, 109>>],
     \* '/ietf-constrained-yang-library:yang-library/content-id'
     [sid |-> 29305,
      path |-> <<
        47, 105, 101, 116, 102, 45, 99, 111, 110, 115, 116, 114, 97, 105,
        110, 101, 100, 45, 121, 97, 110, 103, 45, 108, 105, 98, 114, 97,
        114, 121, 58, 121, 97, 110, 103, 45, 108, 105, 98, 114, 97, 114,
        121, 47, 99, 111, 110, 116, 101, 110, 116, 45, 105, 100>>]
    >>

\* getSIDForPath that takes the first row whose path is a prefix of the
\* path given.
getSIDForPathByPrefix(path) ==
    LET rows == {i \in 1..Len(sidMappings) :
                    /\ Len(sidMappings[i].path) <= Len(path)
                    /\ SubSeq(path, 1, Len(sidMappings[i].path)) = sidMappings[i].path}
    IN  IF rows = {} THEN <<>>
        ELSE <<sidMappings[CHOOSE i \in rows : \A j \in rows : i <= j].sid>>

\* getSIDForPath(path): <<>> for null, else <<sid>>.  The property name
\* under which Object.entries yields a row is the decimal numeral of its
\* SID, which parseInt reads back.
getSIDForPath(path) ==
    LET parseInt(text) ==
            LET value[i \in 0..Len(text)] ==
                    IF i = 0 THEN 0 ELSE value[i - 1] * 10 + (text[i] - 48)
            IN  value[Len(text)]
        rows == {i \in 1..Len(sidMappings) : sidMappings[i].path = path}
    IN  IF rows = {} THEN <<>>
        ELSE <<parseInt(Decimal(sidMappings[CHOOSE i \in rows : \A j \in rows : i <= j].sid))>>

\* getPathForSID(sid): <<>> for null, else <<path>>.
getPathForSID(sid) ==
    IF \E i \in 1..Len(sidMappings) : Decimal(sidMappings[i].sid) = Decimal(sid)
    THEN <<sidMappings[CHOOSE i \in 1..Len(sidMappings) :
                          Decimal(sidMappings[i].sid) = Decimal(sid)].path>>
    ELSE <<>>

\* The property names and paths given: every path of either table, a name
\* that is no path, a path no table has, and a path that continues a path
\* of the tables.
SidNames ==
    {KNOWN_SIDS[i].path : i \in 1..Len(KNOWN_SIDS)}
    \cup {sidMappings[i].path : i \in 1..Len(sidMappings)}
    \cup {<<97>>, <<47, 120>>, KNOWN_SIDS[1].path \o <<47, 120>>}

\* The SIDs given: every SID of either table and SIDs below, between and
\* above them.
SidNumbers ==
    {KNOWN_SIDS[i].sid : i \in 1..Len(KNOWN_SIDS)}
    \cup {sidMappings[i].sid : i \in 1..Len(sidMappings)}
    \cup {1, 999, 4005, 9999, 65535}

\* encode(obj) for an object with the one property name: 1.
EncodeObject ==
    /\ sidPc = "idle"
    /\ \E name \in SidNames :
          /\ sidKey' = name
          /\ sidBytes' = encode(MapValue(<<[key |-> name,
                                            value |-> IntValue(FALSE, Small(1))]>>))
    /\ sidPc' = "encoded"
    /\ UNCHANGED <<sidNumber, sidDecoded, sidFound, sidBack, idVars, rxVars,
                   clientVars, cborVars, connVars, appVars, mupVars, coapVars, ctlVars>>

\* The device sends a map of one pair whose key is the SID n under tag 256
\* and whose value is 1.
ReceiveObject ==
    /\ sidPc = "idle"
    /\ \E n \in SidNumbers :
          /\ sidNumber' = n
          /\ sidBytes' = <<161, 217, 1, 0>> \o encodeUnsignedInt(Small(n)) \o <<1>>
    /\ sidPc' = "received"
    /\ UNCHANGED <<sidKey, sidDecoded, sidFound, sidBack, idVars, rxVars,
                   clientVars, cborVars, connVars, appVars, mupVars, coapVars, ctlVars>>

\* decode(data) of the encoded object or of the bytes received.
DecodeObject ==
    /\ sidPc \in {"encoded", "received"}
    /\ sidDecoded' = decode(sidBytes)
    /\ sidPc' = IF sidPc = "encoded" THEN "decoded" ELSE "read"
    /\ UNCHANGED <<sidKey, sidNumber, sidBytes, sidFound, sidBack, idVars, rxVars,
                   clientVars, cborVars, connVars, appVars, mupVars, coapVars, ctlVars>>

\* getSIDForPath(path)
GetSIDForPath ==
    /\ sidPc = "idle"
    /\ \E path \in SidNames :
          /\ sidKey' = path
          /\ sidFound' = getSIDForPath(path)
    /\ sidPc' = "sid"
    /\ UNCHANGED <<sidNumber, sidBytes, sidDecoded, sidBack, idVars, rxVars,
                   clientVars, cborVars, connVars, appVars, mupVars, coapVars, ctlVars>>

\* getPathForSID(sid)
GetPathForSID ==
    /\ sidPc = "idle"
    /\ \E n \in SidNumbers :
          /\ sidNumber' = n
          /\ sidFound' = getPathForSID(n)
    /\ sidPc' = "path"
    /\ UNCHANGED <<sidKey, sidBytes, sidDecoded, sidBack, idVars, rxVars,
                   clientVars, cborVars, connVars, appVars, mupVars, coapVars, ctlVars>>

\* The opposite lookup for what the first one returned; for null both
\* lookups find no row and return null.
LookupBack ==
    /\ sidPc \in {"sid", "path"}
    /\ sidBack' = IF sidFound = <<>> THEN <<>>
                  ELSE IF sidPc = "sid" THEN getPathForSID(sidFound[1])
                  ELSE getSIDForPath(sidFound[1])
    /\ sidPc' = IF sidPc = "sid" THEN "sidBack" ELSE "pathBack"
    /\ UNCHANGED <<sidKey, sidNumber, sidBytes, sidDecoded, sidFound, idVars, rxVars,
                   clientVars, cborVars, connVars, appVars, mupVars, coapVars, ctlVars>>

SpecSID ==
    InitController
    /\ [][EncodeObject \/ ReceiveObject \/ DecodeObject
          \/ GetSIDForPath \/ GetPathForSID \/ LookupBack]_vars

----------------------------------------------------------------------------
(* Properties: the SID tables (checked under SpecSID) *)

\* The SID the codec's table has for name, 0 when it has none.
CodecSID(name) ==
    IF \E i \in 1..Len(KNOWN_SIDS) : KNOWN_SIDS[i].path = name
    THEN KNOWN_SIDS[CHOOSE i \in 1..Len(KNOWN_SIDS) : KNOWN_SIDS[i].path = name].sid
    ELSE 0

\* The object with the one property name: 1, as decode returns it.
OneProperty(name) ==
    MapValue(<<[key |-> name, value |-> IntValue(FALSE, Small(1))]>>)

\* C31: for every path of the codec's SID table, the encoded map carries the
\* key as tag 256 wrapping the path's SID as an integer and decodes to the
\* key again; a name or path the table does not have is emitted as a text
\* string and decodes to itself; a received SID key that the table does not
\* have is exposed as "SID:" followed by the number.
C31_SIDKeySubstitution ==
    /\ sidPc \in {"encoded", "decoded"} =>
          IF CodecSID(sidKey) # 0
          THEN sidBytes = <<161, 217, 1, 0, 25, CodecSID(sidKey) \div 256,
                            CodecSID(sidKey) % 256, 1>>
          ELSE sidBytes = <<161>>
                          \o (IF Len(sidKey) < 24 THEN <<96 + Len(sidKey)>>
                              ELSE <<120, Len(sidKey)>>)
                          \o sidKey \o <<1>>
    /\ sidPc = "decoded" => sidDecoded = OneProperty(sidKey)
    /\ sidPc = "read" =>
          IF \E i \in 1..Len(KNOWN_SIDS) : KNOWN_SIDS[i].sid = sidNumber
          THEN \E i \in 1..Len(KNOWN_SIDS) :
                  /\ KNOWN_SIDS[i].sid = sidNumber
                  /\ sidDecoded = OneProperty(KNOWN_SIDS[i].path)
          ELSE sidDecoded = OneProperty(<<83, 73, 68, 58>> \o Decimal(sidNumber))

\* The last path of the codec's table has gone through encode and decode.
C31_Witness ==
    /\ sidPc = "decoded"
    /\ sidKey = KNOWN_SIDS[Len(KNOWN_SIDS)].path
    /\ sidDecoded = OneProperty(sidKey)

\* C32: the SID the codec substitutes for a path of its table is the SID
\* the browser's SID table gives for that path, and the path the browser's
\* table gives for that SID is that path: the two tables together give no
\* SID two paths and no path two SIDs.
C32_CodecAgreesWithSIDTable ==
    (sidPc = "encoded" /\ CodecSID(sidKey) # 0) =>
        /\ getSIDForPath(sidKey) = <<sidBytes[6] * 256 + sidBytes[7]>>
        /\ getPathForSID(sidBytes[6] * 256 + sidBytes[7]) = <<sidKey>>

\* C33: the browser's SID table is one-to-one: the path found for a SID of
\* the table leads back to that SID, and the SID found for a path of the
\* table leads back to that path; what the table does not have is not found.
C33_SIDTableBijection ==
    /\ sidPc = "pathBack" =>
          IF \E i \in 1..Len(sidMappings) : sidMappings[i].sid = sidNumber
          THEN sidFound # <<>> /\ sidBack = <<sidNumber>>
          ELSE sidFound = <<>> /\ sidBack = <<>>
    /\ sidPc = "sidBack" =>
          IF \E i \in 1..Len(sidMappings) : sidMappings[i].path = sidKey
          THEN sidFound # <<>> /\ sidBack = <<sidKey>>
          ELSE sidFound = <<>> /\ sidBack = <<>>

\* A path below another path of the table has been looked up and led back
\* to itself.
C33_Witness ==
    /\ sidPc = "sidBack"
    /\ sidKey = sidMappings[3].path
    /\ sidFound = <<sidMappings[3].sid>>
    /\ sidBack = <<sidKey>>

----------------------------------------------------------------------------
(* MUP1Protocol of the YANG browser (SpecRx): the length-prefixed variant  *)
(* with an XOR checksum in src/js/yang-browser.js, whose processByte the   *)
(* serial reader's readLoop calls for every byte it has read.              *)

MaxRxData == 2   \* longest payload given to encodeFrame

SOF == 62   \* '>'
EOF == 60   \* '<'
ESC == 92   \* '\'

\* this.MSG_TYPES
MSG_TYPES == [ANNOUNCE |-> 1, COAP |-> 2, DTLS |-> 3, PING |-> 4, PONG |-> 5,
              SYSTEM_REQUEST |-> 6, TRACE |-> 7]

\* this.STATE (STATE is a reserved word)
STATES == [IDLE |-> 0, HEADER |-> 1, DATA |-> 2, CHECKSUM |-> 3, EOF_WAIT |-> 4]

\* a ^ b for bytes
Xor(a, b) ==
    LET x[i \in 0..8] ==
            IF i = 8 THEN 0
            ELSE (((a \div (2 ^ i)) + (b \div (2 ^ i))) % 2) * (2 ^ i) + x[i + 1]
    IN  x[0]

RECURSIVE XorAll(_, _)
\* checksum ^= byte for every byte of data
XorAll(sum, data) ==
    IF data = <<>> THEN sum ELSE XorAll(Xor(sum, Head(data)), Tail(data))

\* encodeFrame(msgType, data)
encodeFrame(msgType, data) ==
    LET length == Len(data)
        escaped[i \in 0..length] ==
            IF i = 0 THEN <<>>
            ELSE escaped[i - 1]
                 \o (IF data[i] \in {SOF, EOF, ESC} THEN <<ESC>> ELSE <<>>)
                 \o <<data[i]>>
        lengthChecksum == Xor(Xor(msgType, length % 256), (length \div 256) % 256)
    IN  <<SOF, msgType, length % 256, (length \div 256) % 256>>
        \o escaped[length]
        \o <<XorAll(lengthChecksum, data), EOF>>

\* processByte(byte) on the protocol object p: the object afterwards and
\* what the call returned (<<>> for null, <<frame>> for a frame).
processByte(p, byte) ==
    CASE p.state = STATES.IDLE ->
            IF byte = SOF
            THEN [p |-> [p EXCEPT !.state = STATES.HEADER, !.frameBuffer = <<>>], out |-> <<>>]
            ELSE [p |-> p, out |-> <<>>]
      [] p.state = STATES.HEADER ->
            LET frameBuffer == Append(p.frameBuffer, byte)
            IN  IF Len(frameBuffer) = 3
                THEN [p |-> [p EXCEPT !.frameBuffer = frameBuffer,
                                      !.expectedLength = frameBuffer[2] + frameBuffer[3] * 256,
                                      !.state = STATES.DATA,
                                      !.dataBuffer = <<>>,
                                      !.escapeNext = FALSE],
                      out |-> <<>>]
                ELSE [p |-> [p EXCEPT !.frameBuffer = frameBuffer], out |-> <<>>]
      [] p.state = STATES.DATA ->
            LET q == IF p.escapeNext
                     THEN [p EXCEPT !.dataBuffer = Append(@, byte), !.escapeNext = FALSE]
                     ELSE IF byte = ESC
                     THEN [p EXCEPT !.escapeNext = TRUE]
                     ELSE [p EXCEPT !.dataBuffer = Append(@, byte)]
            IN  [p |-> IF Len(q.dataBuffer) >= q.expectedLength
                       THEN [q EXCEPT !.state = STATES.CHECKSUM] ELSE q,
                 out |-> <<>>]
      [] p.state = STATES.CHECKSUM ->
            LET computed ==
                    XorAll(Xor(Xor(p.frameBuffer[1], p.frameBuffer[2]), p.frameBuffer[3]),
                           SubSeq(p.dataBuffer, 1, p.expectedLength))
            IN  [p |-> [p EXCEPT !.state = IF computed = byte THEN STATES.EOF_WAIT
                                           ELSE STATES.IDLE],
                 out |-> <<>>]
      [] p.state = STATES.EOF_WAIT ->
            IF byte = EOF
            THEN [p |-> [p EXCEPT !.state = STATES.IDLE],
                  out |-> <<[type |-> p.frameBuffer[1],
                             data |-> SubSeq(p.dataBuffer, 1, p.expectedLength)]>>]
            ELSE [p |-> [p EXCEPT !.state = STATES.IDLE], out |-> <<>>]

\* encodeFrame(msgType, data) for a CoAP or a PONG message with a payload
\* of 1..MaxRxData bytes, among them the bytes that are escaped.
EncodeFrame ==
    /\ rxBytes = <<>>
    /\ \E msgType \in {MSG_TYPES.COAP, MSG_TYPES.PONG} :
          \E n \in 1..MaxRxData :
             \E data \in [1..n -> {0, 4, SOF, EOF, ESC, 255}] :
                /\ rxType' = msgType
                /\ rxData' = data
                /\ rxBytes' = encodeFrame(msgType, data)
    /\ UNCHANGED <<rxFed, rxProtocol, rxFrames, sidVars, idVars,
                   clientVars, cborVars, connVars, appVars, mupVars, coapVars, ctlVars>>

\* createPing()
CreatePing ==
    /\ rxBytes = <<>>
    /\ rxType' = MSG_TYPES.PING
    /\ rxData' = <<>>
    /\ rxBytes' = encodeFrame(MSG_TYPES.PING, <<>>)
    /\ UNCHANGED <<rxFed, rxProtocol, rxFrames, sidVars, idVars,
                   clientVars, cborVars, connVars, appVars, mupVars, coapVars, ctlVars>>

\* readLoop hands the next byte of the frame to processByte.
ReadByte ==
    /\ rxFed < Len(rxBytes)
    /\ LET r == processByte(rxProtocol, rxBytes[rxFed + 1])
       IN  /\ rxProtocol' = r.p
           /\ rxFrames' = rxFrames \o r.out
    /\ rxFed' = rxFed + 1
    /\ UNCHANGED <<rxType, rxData, rxBytes, sidVars, idVars,
                   clientVars, cborVars, connVars, appVars, mupVars, coapVars, ctlVars>>

SpecRx == InitController /\ [][EncodeFrame \/ CreatePing \/ ReadByte]_vars

----------------------------------------------------------------------------
(* Properties: the length-prefixed MUP1 variant (checked under SpecRx) *)

\* C39: the bytes of encodeFrame(type, data), given one by one to a new
\* processByte, yield exactly one frame, with that type and data, on the
\* last byte and not before, for every payload and also for the empty
\* payload of createPing.
C39_LengthPrefixedRoundTrip ==
    rxBytes # <<>> =>
        IF rxFed = Len(rxBytes)
        THEN rxFrames = <<[type |-> rxType, data |-> rxData]>>
        ELSE rxFrames = <<>>

\* The same for the frames with a payload of at least one byte.
NonEmptyRoundTrip == rxData # <<>> => C39_LengthPrefixedRoundTrip

----------------------------------------------------------------------------
(* Controller: identifyDevice (SpecIdentify).  connect() as in SpecConnect *)
(* up to the point where the ping has been answered; identifyDevice() is   *)
(* then called, by connect() itself and again by whoever holds the         *)
(* controller (TestUtilities.deviceIdentification).  Its two requests,     *)
(* getYangChecksum() and getInterfaces(), catch their own errors and are   *)
(* given by what they return: the checksum or null, and the list of        *)
(* interfaces the device reported, [] when the request failed.             *)

MaxIdentifications == 2   \* identifyDevice() calls

\* identifyDevice() after both requests have returned: this.deviceInfo as it
\* leaves it.  Names are sequences of characters; <<>> stands for null and
\* <<x>> for the value x.
identifyDevice(info, checksumData, interfaces) ==
    LET \* /^\d+$/.test(i.name)
        isPort(name) == name # <<>> /\ \A i \in 1..Len(name) : name[i] \in 48..57
        portCount == Cardinality({i \in 1..Len(interfaces) : isPort(interfaces[i])})
        info1 == IF checksumData # <<>> THEN [info EXCEPT !.checksum = checksumData]
                 ELSE info
    IN  IF portCount = 2 THEN [info1 EXCEPT !.model = <<"LAN9662">>, !.ports = 2]
        ELSE IF portCount = 12 THEN [info1 EXCEPT !.model = <<"LAN9692">>, !.ports = 12]
        ELSE IF portCount = 8 THEN [info1 EXCEPT !.model = <<"LAN9668">>, !.ports = 8]
        ELSE info1

\* identifyDevice() up to `await this.getYangChecksum()`.
IdentifyDevice ==
    /\ ~ConnectRunnable
    /\ isConnected
    /\ identifyPc = "idle"
    /\ Len(identified) < MaxIdentifications
    /\ identifyPc' = "checksum"
    /\ UNCHANGED <<deviceInfo, identified, sidVars, rxVars, clientVars, cborVars,
                   connVars, appVars, mupVars, coapVars, ctlVars>>

\* getYangChecksum() has returned the checksum or null; identifyDevice()
\* goes on to `await this.getInterfaces()`.
ChecksumReturns ==
    /\ ~ConnectRunnable
    /\ identifyPc = "checksum"
    /\ \E checksumData \in {<<>>, <<"c0ffee">>} :
          identifyPc' = IF checksumData = <<>> THEN "interfaces"
                        ELSE "interfaces with checksum"
    /\ UNCHANGED <<deviceInfo, identified, sidVars, rxVars, clientVars, cborVars,
                   connVars, appVars, mupVars, coapVars, ctlVars>>

\* getInterfaces() has returned: n interfaces named "1" .. "n", possibly
\* with one more that is no port, or [].  identifyDevice() runs to its end
\* and returns this.deviceInfo.
InterfacesReturn ==
    /\ ~ConnectRunnable
    /\ identifyPc \in {"interfaces", "interfaces with checksum"}
    /\ \E n \in {0, 1, 2, 3, 8, 12} : \E other \in {<<>>, <<<<99, 112, 117>>>>} :
          LET interfaces == [i \in 1..n |-> Decimal(i)] \o other
              info == identifyDevice(deviceInfo,
                                     IF identifyPc = "interfaces" THEN <<>>
                                     ELSE <<"c0ffee">>,
                                     interfaces)
          IN  /\ deviceInfo' = info
              /\ identified' = Append(identified,
                                      [portCount |-> n, returned |-> info,
                                       isConnected |-> isConnected])
    /\ identifyPc' = "idle"
    /\ UNCHANGED <<sidVars, rxVars, clientVars, cborVars,
                   connVars, appVars, mupVars, coapVars, ctlVars>>

SpecIdentify ==
    InitController
    /\ [][Connect \/ PingWritten \/ ConnectResumes \/ DeviceReply
          \/ ResponseTimeout \/ IdentifyDevice \/ ChecksumReturns
          \/ InterfacesReturn]_vars

----------------------------------------------------------------------------
(* Properties: identifyDevice (checked under SpecIdentify) *)

\* The model that belongs to a number of populated ports, <<>> for unknown.
ModelOf(portCount) ==
    CASE portCount = 2  -> <<"LAN9662">>
      [] portCount = 8  -> <<"LAN9668">>
      [] portCount = 12 -> <<"LAN9692">>
      [] OTHER          -> <<>>

\* C34: every identifyDevice() call that has completed left the connection
\* connected and reported the model that belongs to the number of populated
\* ports it found: LAN9662 for 2, LAN9668 for 8, LAN9692 for 12, and
\* unknown for any other number, also when an earlier call had found a
\* model.
C34_ModelFromPortCount ==
    /\ \A k \in 1..Len(identified) :
          /\ identified[k].isConnected
          /\ identified[k].returned.model = ModelOf(identified[k].portCount)
    /\ identified # <<>> => isConnected

----------------------------------------------------------------------------
(* CoAP engine: the message-ID counter goes round (SpecWrap).  A first     *)
(* exchange is submitted and stays unanswered; the application goes on     *)
(* submitting requests, each of which the peer answers before the next is  *)
(* submitted.  An exchange that has been answered is of no further         *)
(* interest and its journal is dropped, so that exchanges holds the first  *)
(* exchange and at most one more.                                          *)

MaxOutstanding == 2   \* exchanges submitted and not answered

\* get(path): the application submits a request without payload.
SubmitNext ==
    /\ Len(exchanges) < MaxOutstanding
    /\ Become(handleBlockWiseTransfer(TheWorld, Null))
    /\ UNCHANGED <<budget, mupVars, ctlVars, restVars>>

\* The peer answers the request of the latest exchange with 2.05 and
\* processResponse resolves it.
AnswerLatest ==
    /\ Len(exchanges) = MaxOutstanding
    /\ exchanges[MaxOutstanding].outcome = "pending"
    /\ LET response == [type |-> TYPE_ACKNOWLEDGMENT,
                        messageId |-> exchanges[MaxOutstanding].key,
                        codeClass |-> 2, codeDetail |-> 5,
                        block1 |-> Null, block2 |-> Null, payload |-> Null]
           w == processResponse(
                    World(messageIdCounter, activeRequests,
                          Matched(exchanges, activeRequests, response)),
                    response)
       IN  /\ messageIdCounter' = w.counter
           /\ activeRequests' = w.active
           /\ exchanges' = IF w.exs[MaxOutstanding].outcome = "resolved"
                           THEN SubSeq(w.exs, 1, MaxOutstanding - 1)
                           ELSE w.exs
    /\ UNCHANGED <<budget, mupVars, ctlVars, restVars>>

SpecWrap == Init /\ [][SubmitNext \/ AnswerLatest]_vars

----------------------------------------------------------------------------
(* Properties: the registry when the counter goes round (SpecWrap) *)

\* C36: registering a new exchange never overwrites the entry of an
\* exchange that is still pending, also after the 16-bit counter has gone
\* round: every pending exchange is registered under its key with its own
\* entry (resolver and timer).
C36_PendingEntryNeverOverwritten ==
    \A e \in 1..Len(exchanges) :
        (exchanges[e].outcome = "pending" /\ ~exchanges[e].threw) =>
            /\ exchanges[e].key \in DOMAIN activeRequests
            /\ activeRequests[exchanges[e].key].ex = e

====
